---- MODULE Spec2Model ----
(***************************************************************************)
(* Verification model of the pi-kinect streamers:                          *)
(*   pi_kinect/pi_kinect/streamer.py      KinectStreamer, KinectHTTPHandler *)
(*   kinect_ws/src/kinect_unified_streamer.py  UnifiedKinectStreamer        *)
(*   kinect_robust.py                     RobustFreenect, RobustKinectStreamer *)
(*   kinect_simple_real.py                SimpleFreenect, SimpleKinectStreamer *)
(*   pi_kinect/pi_kinect/cli.py           start_streaming                   *)
(***************************************************************************)
EXTENDS Integers, Sequences, FiniteSets, TLC

(***************************************************************************)
(* Values                                                                  *)
(***************************************************************************)
None == "None"          \* Python None for string-valued fields and handles
NoFrame == 0            \* Python None for frame-valued fields (frames are ids >= 1)

\* the probing classes
ProbeVariants == {"pi_kinect", "unified"}

\* backends in the order the probe tries them
ProbeOrder == <<"freenect", "freenect_system", "opencv">>

\* alternates of the camera index list [index, 1, 2, 3, 4, 5]
AltIndices == <<1, 2, 3, 4, 5>>

\* one name per VideoCapture object created while walking the index list
CapNames == <<"cap_a", "cap_b", "cap_c", "cap_d", "cap_e", "cap_f">>

\* native resources a probe can create
ResNames == {"ctx_py", "dev_py", "ctx_sys"} \cup {CapNames[i] : i \in 1..Len(CapNames)}

\* what the freenect Python binding can do during _try_freenect_python
PyOutcomes == {"init_raises", "no_ctx", "no_devices", "open_fails",
               "open_raises", "mode_raises", "ok"}

\* what libfreenect.so can do during _try_freenect_system
SysOutcomes == {"load_raises", "init_fails", "no_devices", "ok"}

\* what cv2.VideoCapture(idx) can do for one index
CamOutcomes == {"closed", "noframe", "read_raises", "ok"}

\* configured camera indices tried by the model
ConfigIndices == {0, 3}

VARIABLES
    variant,             \* which streamer class this run is about
    FREENECT_AVAILABLE,  \* module-level flag: `import freenect` worked
    config,              \* config.kinect.* and config.camera.index
    probe_pc,            \* which backend the probe tries next, or "none"/"done"/"raised"
    attempted,           \* history: the _try_* calls made so far, in order, with results
    kinect_available,
    kinect_method,
    device_handle,       \* KinectStreamer.device_handle
    freenect_ctx,        \* UnifiedKinectStreamer.freenect_ctx
    freenect_device,     \* UnifiedKinectStreamer.freenect_device
    cap,                 \* the retained cv2.VideoCapture
    error_message,
    opened,              \* native resources that were successfully opened
    releases,            \* number of release/shutdown calls made on each resource
    launch,              \* "cli": start_streaming with signal handlers; "direct": start() alone
    running,
    frame_count,
    current_frame,       \* KinectStreamer.current_frame / UnifiedKinectStreamer.frame
    current_depth,       \* KinectStreamer.current_depth / UnifiedKinectStreamer.depth_frame
    frame_queue,
    depth_queue,
    cap_pc,              \* capture thread: "idle", "loop", "backend", "exited", "dead"
    in_use,              \* the handle the capture thread is inside a backend call on
    last_cycle,          \* history: did the last finished capture cycle raise frame_count
    main_pc,             \* main thread: "constructed", "serving", "in_handler",
                         \* "interrupted", "returned", "exited"
    server,              \* self.server: "none" or "set"
    is_shut_down,        \* HTTPServer: serve_forever is not running
    stop_pc,             \* stop(): "idle", "shutdown", "join", "cleanup", "returned"
    stops,               \* number of stop() calls made
    pubs,                \* number of frames the capture thread has obtained so far
    heap,                \* the numpy arrays: array id -> its pixels
    wr_pc,               \* capture thread inside a cycle: "idle" or "store"
    wr_kind,             \* kind of the frame being stored: "rgb" or "depth"
    wr_src,              \* id of the array the backend returned in this cycle
    wr_i,                \* next pixel an in-place copy writes
    lock,                \* holder of each threading.Lock
    rd_pc,               \* each reader: "idle", "load", "copy"
    rd_req,              \* each reader: the call or HTTP path it is serving
    rd_ref,              \* each reader: the array it is copying
    rd_buf,              \* each reader: the pixels copied so far
    result,              \* each reader: what its last get_frame/get_depth_frame returned
    response,            \* each reader: the HTTP response its last request got
    rd_snaps,            \* each reader: what the earlier get_* calls of this request returned
    rd_alias,            \* each reader: the shared array its returned frame is, if not a copy
    seen,                \* each reader, each kind: the last frame number returned to it
    json,                \* each reader: the fields of the JSON body of its last response
    tone_pc,             \* _tone_map_depth: "ready" before the call, "done" after
    depth_frame,         \* _tone_map_depth: the samples of its argument
    tone_out,            \* _tone_map_depth: what the call returned
    depth_body,          \* /depth: the 8-bit image the handler colours and encodes
    cfg_pc,              \* Config: "made", then "saved", then "loaded"
    cfg_made,            \* Config: the object save() is called on, field by field
    cfg_env,             \* Config: the PI_KINECT_* variables that are set
    cfg_file,            \* Config: the YAML document at config_path, or NoFile
    cfg_loaded,          \* Config: the object load() returned, or NoConfig
    cam_outs,            \* _try_opencv: what the camera at each list position does
    delivered,           \* driver: number of video frames handed to _video_callback
    dropped,             \* driver: the delivered frames the callback let go
    video_data,          \* RobustFreenect / SimpleFreenect: the video slot
    video_lock,          \* who holds video_lock: None, "callback", "loop" or "reader"
    loop_pc,             \* capture thread: where it is in its cycle
    loop_got,            \* capture thread: what its last get_video_frame returned
    cycle_mark,          \* history: value of delivered when the last cycle ended
    reader_pc,           \* another thread inside get_video_frame, or idle
    reader_got,          \* what that thread's last get_video_frame returned
    status_line          \* did the last finished capture cycle log the FPS line

probeVars == <<variant, FREENECT_AVAILABLE, config, probe_pc, attempted,
               kinect_available, kinect_method, device_handle, freenect_ctx,
               freenect_device, cap, error_message, opened, releases>>

lifeVars == <<launch, running, frame_count, current_frame, current_depth, frame_queue,
              depth_queue, cap_pc, in_use, last_cycle, main_pc, server, is_shut_down,
              stop_pc, stops>>

frameVars == <<pubs, heap, wr_pc, wr_kind, wr_src, wr_i, lock, rd_pc, rd_req, rd_ref,
               rd_buf, result, response, rd_snaps, rd_alias, seen, json>>

\* inputs and results of the operations that are checked on their own
toneVars == <<tone_pc, depth_frame, tone_out, depth_body>>
cfgVars == <<cfg_pc, cfg_made, cfg_env, cfg_file, cfg_loaded>>
scanVars == <<cam_outs>>
drvVars == <<delivered, dropped, video_data, video_lock, loop_pc, loop_got, cycle_mark,
             reader_pc, reader_got>>
pureVars == <<toneVars, cfgVars, scanVars, drvVars>>

\* what the capture loop wrote to its log
logVars == <<status_line>>

vars == <<probeVars, lifeVars, frameVars, pureVars, logVars>>

(***************************************************************************)
(* Device probing                                                          *)
(***************************************************************************)

\* the guards in front of each _try_* call
Eligible(v, fa, cfg, m) ==
    IF v = "pi_kinect"
    THEN CASE m = "freenect"        -> fa /\ cfg.enabled
           [] m = "freenect_system" -> cfg.enabled
           [] m = "opencv"          -> cfg.fallback_to_opencv
    ELSE CASE m = "freenect"        -> fa
           [] m = "freenect_system" -> TRUE
           [] m = "opencv"          -> TRUE

\* the next backend whose guard lets it be tried, from position i on
RECURSIVE NextStage(_, _, _, _)
NextStage(v, fa, cfg, i) ==
    IF i > Len(ProbeOrder) THEN "none"
    ELSE IF Eligible(v, fa, cfg, ProbeOrder[i]) THEN ProbeOrder[i]
    ELSE NextStage(v, fa, cfg, i + 1)

StageIndex(m) == CHOOSE i \in 1..Len(ProbeOrder) : ProbeOrder[i] = m

\* add one release call on each resource of rs
Released(rel, rs) == [r \in ResNames |-> IF r \in rs THEN rel[r] + 1 ELSE rel[r]]

\* _try_freenect_python without its try/except: a raising sub-step propagates
try_freenect_python_noexcept(o, handle) ==
    IF o \in {"init_raises", "open_raises", "mode_raises"}
    THEN [ok |-> FALSE, raised |-> TRUE, device_handle |-> handle,
          opens |-> {}, rels |-> {}]
    ELSE [ok |-> (o = "ok"), raised |-> FALSE,
          device_handle |-> IF o = "ok" THEN "dev_py" ELSE handle,
          opens |-> IF o = "ok" THEN {"ctx_py", "dev_py"} ELSE {}, rels |-> {}]

\* KinectStreamer._try_freenect_python: result of one call
try_freenect_python(o, handle) ==
    CASE o = "init_raises" -> [ok |-> FALSE, raised |-> FALSE, device_handle |-> handle,
                               opens |-> {}, rels |-> {}]
      [] o = "no_ctx"      -> [ok |-> FALSE, raised |-> FALSE, device_handle |-> handle,
                               opens |-> {}, rels |-> {}]
      [] o = "no_devices"  -> [ok |-> FALSE, raised |-> FALSE, device_handle |-> handle,
                               opens |-> {"ctx_py"}, rels |-> {"ctx_py"}]
      [] o = "open_fails"  -> [ok |-> FALSE, raised |-> FALSE, device_handle |-> None,
                               opens |-> {"ctx_py"}, rels |-> {"ctx_py"}]
      [] o = "open_raises" -> [ok |-> FALSE, raised |-> FALSE, device_handle |-> handle,
                               opens |-> {"ctx_py"}, rels |-> {}]
      [] o = "mode_raises" -> [ok |-> FALSE, raised |-> FALSE, device_handle |-> "dev_py",
                               opens |-> {"ctx_py", "dev_py"}, rels |-> {}]
      [] o = "ok"          -> [ok |-> TRUE, raised |-> FALSE, device_handle |-> "dev_py",
                               opens |-> {"ctx_py", "dev_py"}, rels |-> {}]

\* KinectStreamer._try_freenect_system: result of one call
try_freenect_system(o, handle) ==
    CASE o = "load_raises" -> [ok |-> FALSE, raised |-> FALSE, device_handle |-> handle,
                               opens |-> {}, rels |-> {}]
      [] o = "init_fails"  -> [ok |-> FALSE, raised |-> FALSE, device_handle |-> handle,
                               opens |-> {}, rels |-> {}]
      [] o = "no_devices"  -> [ok |-> FALSE, raised |-> FALSE, device_handle |-> handle,
                               opens |-> {"ctx_sys"}, rels |-> {}]
      [] o = "ok"          -> [ok |-> TRUE, raised |-> FALSE, device_handle |-> "ctx_sys",
                               opens |-> {"ctx_sys"}, rels |-> {}]

\* UnifiedKinectStreamer._try_freenect_python: result of one call
unified_try_freenect_python(o, ctx, dev) ==
    CASE o = "init_raises" -> [ok |-> FALSE, raised |-> FALSE, freenect_ctx |-> ctx,
                               freenect_device |-> dev, opens |-> {}, rels |-> {}]
      [] o = "no_ctx"      -> [ok |-> FALSE, raised |-> FALSE, freenect_ctx |-> ctx,
                               freenect_device |-> dev, opens |-> {}, rels |-> {}]
      [] o = "no_devices"  -> [ok |-> FALSE, raised |-> FALSE, freenect_ctx |-> ctx,
                               freenect_device |-> dev, opens |-> {"ctx_py"}, rels |-> {"ctx_py"}]
      [] o = "open_fails"  -> [ok |-> FALSE, raised |-> FALSE, freenect_ctx |-> "ctx_py",
                               freenect_device |-> None, opens |-> {"ctx_py"}, rels |-> {"ctx_py"}]
      [] o = "open_raises" -> [ok |-> FALSE, raised |-> FALSE, freenect_ctx |-> "ctx_py",
                               freenect_device |-> dev, opens |-> {"ctx_py"}, rels |-> {}]
      [] o = "mode_raises" -> [ok |-> FALSE, raised |-> FALSE, freenect_ctx |-> "ctx_py",
                               freenect_device |-> "dev_py", opens |-> {"ctx_py", "dev_py"},
                               rels |-> {}]
      [] o = "ok"          -> [ok |-> TRUE, raised |-> FALSE, freenect_ctx |-> "ctx_py",
                               freenect_device |-> "dev_py", opens |-> {"ctx_py", "dev_py"},
                               rels |-> {}]

\* UnifiedKinectStreamer._try_freenect_system: result of one call
unified_try_freenect_system(o, ctx) ==
    CASE o = "load_raises" -> [ok |-> FALSE, raised |-> FALSE, freenect_ctx |-> ctx,
                               opens |-> {}, rels |-> {}]
      [] o = "init_fails"  -> [ok |-> FALSE, raised |-> FALSE, freenect_ctx |-> ctx,
                               opens |-> {}, rels |-> {}]
      [] o = "no_devices"  -> [ok |-> FALSE, raised |-> FALSE, freenect_ctx |-> ctx,
                               opens |-> {"ctx_sys"}, rels |-> {}]
      [] o = "ok"          -> [ok |-> TRUE, raised |-> FALSE, freenect_ctx |-> "ctx_sys",
                               opens |-> {"ctx_sys"}, rels |-> {}]

\* the list [index, 1, 2, 3, 4, 5] walked by _try_opencv
CameraIndexList(index) == <<index>> \o AltIndices

\* _try_opencv (both classes): walk the index list from position i; outs[i] is
\* what the camera at position i does
RECURSIVE try_opencv_from(_, _, _, _, _, _, _)
try_opencv_from(i, outs, index, cap0, idx0, opens, rels) ==
    IF i > Len(CameraIndexList(index))
    THEN [ok |-> FALSE, raised |-> FALSE, cap |-> cap0, camera_index |-> idx0,
          opens |-> opens, rels |-> rels, tried |-> i - 1]
    ELSE CASE outs[i] = "closed" ->
                try_opencv_from(i + 1, outs, index, cap0, idx0, opens,
                                rels \cup {CapNames[i]})
           [] outs[i] = "noframe" ->
                try_opencv_from(i + 1, outs, index, cap0, idx0,
                                opens \cup {CapNames[i]}, rels \cup {CapNames[i]})
           [] outs[i] = "read_raises" ->
                [ok |-> FALSE, raised |-> FALSE, cap |-> cap0, camera_index |-> idx0,
                 opens |-> opens \cup {CapNames[i]}, rels |-> rels, tried |-> i]
           [] outs[i] = "ok" ->
                [ok |-> TRUE, raised |-> FALSE, cap |-> CapNames[i],
                 camera_index |-> CameraIndexList(index)[i],
                 opens |-> opens \cup {CapNames[i]}, rels |-> rels, tried |-> i]

try_opencv(outs, index, cap0) ==
    try_opencv_from(1, outs, index, cap0, index, {}, {})

\* the probe's fields as one record
ProbeState ==
    [variant |-> variant, FREENECT_AVAILABLE |-> FREENECT_AVAILABLE, config |-> config,
     probe_pc |-> probe_pc, attempted |-> attempted,
     kinect_available |-> kinect_available, kinect_method |-> kinect_method,
     device_handle |-> device_handle, freenect_ctx |-> freenect_ctx,
     freenect_device |-> freenect_device, cap |-> cap,
     error_message |-> error_message, opened |-> opened, releases |-> releases]

\* the fields right after __init__ has set its defaults, before the probe's first guard
ProbeStart(v, fa, cfg) ==
    [variant |-> v, FREENECT_AVAILABLE |-> fa, config |-> cfg,
     probe_pc |-> NextStage(v, fa, cfg, 1), attempted |-> <<>>,
     kinect_available |-> FALSE, kinect_method |-> None,
     device_handle |-> None, freenect_ctx |-> None, freenect_device |-> None,
     cap |-> None, error_message |-> None, opened |-> {},
     releases |-> [r \in ResNames |-> 0]]

\* the probe without the `return` after a successful attempt
AfterTry_noreturn(s, m, r) ==
    LET s1 == [s EXCEPT !.attempted = Append(@, [method |-> m, ok |-> r.ok]),
                        !.opened = @ \cup r.opens,
                        !.releases = Released(@, r.rels),
                        !.probe_pc = NextStage(s.variant, s.FREENECT_AVAILABLE,
                                               s.config, StageIndex(m) + 1)]
    IN  IF r.ok THEN [s1 EXCEPT !.kinect_method = m, !.kinect_available = TRUE]
        ELSE s1

\* _detect_and_initialize_device / detect_kinect: what follows one _try_* call
AfterTry(s, m, r) ==
    LET s1 == [s EXCEPT !.attempted = Append(@, [method |-> m, ok |-> r.ok]),
                        !.opened = @ \cup r.opens,
                        !.releases = Released(@, r.rels)]
    IN  IF r.raised THEN [s1 EXCEPT !.probe_pc = "raised"]
        ELSE IF r.ok
        THEN [s1 EXCEPT !.kinect_method = m, !.kinect_available = TRUE,
                        !.probe_pc = "done"]
        ELSE [s1 EXCEPT !.probe_pc = NextStage(s.variant, s.FREENECT_AVAILABLE,
                                               s.config, StageIndex(m) + 1)]

\* one step of _detect_and_initialize_device / detect_kinect from fields s, where
\* in.py, in.sys and in.cams say what the three backends do when tried
detect_step(s, in) ==
    CASE s.probe_pc = "freenect" ->
           IF s.variant = "pi_kinect"
           THEN LET r == try_freenect_python(in.py, s.device_handle) IN
                AfterTry([s EXCEPT !.device_handle = r.device_handle], "freenect", r)
           ELSE LET r == unified_try_freenect_python(in.py, s.freenect_ctx,
                                                     s.freenect_device) IN
                AfterTry([s EXCEPT !.freenect_ctx = r.freenect_ctx,
                                   !.freenect_device = r.freenect_device], "freenect", r)
      [] s.probe_pc = "freenect_system" ->
           IF s.variant = "pi_kinect"
           THEN LET r == try_freenect_system(in.sys, s.device_handle) IN
                AfterTry([s EXCEPT !.device_handle = r.device_handle],
                         "freenect_system", r)
           ELSE LET r == unified_try_freenect_system(in.sys, s.freenect_ctx) IN
                AfterTry([s EXCEPT !.freenect_ctx = r.freenect_ctx],
                         "freenect_system", r)
      [] s.probe_pc = "opencv" ->
           LET r == try_opencv(in.cams, s.config.index, s.cap) IN
           AfterTry([s EXCEPT !.cap = r.cap, !.config.index = r.camera_index],
                    "opencv", r)
      [] s.probe_pc = "none" ->
           [s EXCEPT !.kinect_available = FALSE,
                     !.kinect_method = None,
                     !.error_message = IF s.variant = "pi_kinect"
                                       THEN "No camera device detected"
                                       ELSE "No Kinect camera detected",
                     !.probe_pc = "done"]
      [] OTHER -> s

\* the whole of _detect_and_initialize_device / detect_kinect
RECURSIVE detect_and_initialize_device(_, _)
detect_and_initialize_device(s, in) ==
    IF s.probe_pc \in {"done", "raised"} THEN s
    ELSE detect_and_initialize_device(detect_step(s, in), in)

SetProbeState(s) ==
    /\ variant' = s.variant
    /\ FREENECT_AVAILABLE' = s.FREENECT_AVAILABLE
    /\ config' = s.config
    /\ probe_pc' = s.probe_pc
    /\ attempted' = s.attempted
    /\ kinect_available' = s.kinect_available
    /\ kinect_method' = s.kinect_method
    /\ device_handle' = s.device_handle
    /\ freenect_ctx' = s.freenect_ctx
    /\ freenect_device' = s.freenect_device
    /\ cap' = s.cap
    /\ error_message' = s.error_message
    /\ opened' = s.opened
    /\ releases' = s.releases

\* the probe's fields are those of record s
IsProbeState(s) ==
    /\ variant = s.variant
    /\ FREENECT_AVAILABLE = s.FREENECT_AVAILABLE
    /\ config = s.config
    /\ probe_pc = s.probe_pc
    /\ attempted = s.attempted
    /\ kinect_available = s.kinect_available
    /\ kinect_method = s.kinect_method
    /\ device_handle = s.device_handle
    /\ freenect_ctx = s.freenect_ctx
    /\ freenect_device = s.freenect_device
    /\ cap = s.cap
    /\ error_message = s.error_message
    /\ opened = s.opened
    /\ releases = s.releases

\* every vector of per-index camera behaviours
AllCams == [1..Len(CapNames) -> CamOutcomes]

ProbeInputs == [py : PyOutcomes, sys : SysOutcomes, cams : AllCams]

\* Method 1: the freenect Python binding
TryFreenectPython ==
    /\ probe_pc = "freenect"
    /\ \E o \in PyOutcomes :
         SetProbeState(detect_step(ProbeState,
                                   [py |-> o, sys |-> "ok", cams |-> <<>>]))
    /\ UNCHANGED <<lifeVars, frameVars, pureVars, logVars>>

\* Method 2: libfreenect.so through ctypes
TryFreenectSystem ==
    /\ probe_pc = "freenect_system"
    /\ \E o \in SysOutcomes :
         SetProbeState(detect_step(ProbeState,
                                   [py |-> "ok", sys |-> o, cams |-> <<>>]))
    /\ UNCHANGED <<lifeVars, frameVars, pureVars, logVars>>

\* Method 3: cv2.VideoCapture over the index list
TryOpencv ==
    /\ probe_pc = "opencv"
    /\ \E outs \in AllCams :
         SetProbeState(detect_step(ProbeState,
                                   [py |-> "ok", sys |-> "ok", cams |-> outs]))
    /\ UNCHANGED <<lifeVars, frameVars, pureVars, logVars>>

\* "No camera found": every guarded attempt failed or was skipped
NoCameraFound ==
    /\ probe_pc = "none"
    /\ SetProbeState(detect_step(ProbeState,
                                 [py |-> "ok", sys |-> "ok", cams |-> <<>>]))
    /\ UNCHANGED <<lifeVars, frameVars, pureVars, logVars>>

\* pixels per frame in the model
FrameLen == 2

\* number of frames the capture thread obtains in the model
MaxPubs == 3

\* all streamer classes
FrameVariants == {"pi_kinect", "unified", "robust", "simple"}

Kinds == {"rgb", "depth"}

\* threads that read frames: a caller of the Python API and an HTTP handler
Readers == {"api", "http"}

LockNames == {"lock", "video_lock", "depth_lock"}

\* ids of numpy arrays; RobustKinectStreamer pre-allocates two of them
ArrayIds == 1..(MaxPubs + 2)

NoResult == [state |-> "pending", req |-> None, pix |-> <<>>]

NoResponse == [req |-> None, status |-> 0, body |-> "none"]

\* no JSON body: every field absent
NoJson == [rgb_available |-> FALSE, depth_available |-> FALSE,
           has_rgb_data |-> FALSE, has_depth_data |-> FALSE,
           rgb_data |-> <<>>, depth_data |-> <<>>,
           running |-> FALSE, frame_count |-> 0, kinect_available |-> FALSE,
           error_message |-> None]

(***************************************************************************)
(* pi_kinect/config.py: Config, its YAML file and the environment          *)
(***************************************************************************)
\* Python values, with the text of their content
PyStr(x)  == [t |-> "str", v |-> x]
PyInt(x)  == [t |-> "int", v |-> x]
PyBool(b) == [t |-> "bool", v |-> IF b THEN "True" ELSE "False"]
PyNone    == [t |-> "none", v |-> "None"]

\* the fields of Config and of its four nested dataclasses
NetworkFields == {"network.host", "network.port", "network.timeout"}
CameraFields  == {"camera.index", "camera.width", "camera.height", "camera.fps",
                  "camera.jpeg_quality"}
KinectFields  == {"kinect.enabled", "kinect.auto_detect", "kinect.fallback_to_opencv",
                  "kinect.depth_enabled", "kinect.ir_enabled"}
LoggingFields == {"logging.level", "logging.format", "logging.file",
                  "logging.max_size", "logging.backup_count"}
TopFields     == {"pi_ip", "pi_username", "pi_password", "debug", "profile"}
ConfigFields  == NetworkFields \cup CameraFields \cup KinectFields
                    \cup LoggingFields \cup TopFields

\* Config(): the dataclass defaults
DefaultConfig ==
    [f \in ConfigFields |->
       CASE f = "network.host" -> PyStr("0.0.0.0")
         [] f = "network.port" -> PyInt("8080")
         [] f = "network.timeout" -> PyInt("10")
         [] f = "camera.index" -> PyInt("0")
         [] f = "camera.width" -> PyInt("640")
         [] f = "camera.height" -> PyInt("480")
         [] f = "camera.fps" -> PyInt("30")
         [] f = "camera.jpeg_quality" -> PyInt("85")
         [] f = "kinect.enabled" -> PyBool(TRUE)
         [] f = "kinect.auto_detect" -> PyBool(TRUE)
         [] f = "kinect.fallback_to_opencv" -> PyBool(TRUE)
         [] f = "kinect.depth_enabled" -> PyBool(TRUE)
         [] f = "kinect.ir_enabled" -> PyBool(FALSE)
         [] f = "logging.level" -> PyStr("INFO")
         [] f = "logging.format" -> PyStr("%(asctime)s - %(name)s - %(levelname)s - %(message)s")
         [] f = "logging.file" -> PyNone
         [] f = "logging.max_size" -> PyInt("10485760")
         [] f = "logging.backup_count" -> PyInt("5")
         [] f = "pi_ip" -> PyStr("192.168.1.9")
         [] f = "pi_username" -> PyStr("pi")
         [] f = "pi_password" -> PyNone
         [] f = "debug" -> PyBool(FALSE)
         [] f = "profile" -> PyBool(FALSE)]

\* the values a caller assigns to a field before saving
Assignable(f) ==
    CASE f = "network.host" -> {PyStr("test.example.com")}
      [] f = "network.port" -> {PyInt("9000")}
      [] f = "network.timeout" -> {PyInt("20")}
      [] f = "camera.index" -> {PyInt("2")}
      [] f = "camera.width" -> {PyInt("1920")}
      [] f = "camera.height" -> {PyInt("1080")}
      [] f = "camera.fps" -> {PyInt("60")}
      [] f = "camera.jpeg_quality" -> {PyInt("95")}
      [] f \in KinectFields \cup {"debug", "profile"} -> {PyBool(DefaultConfig[f].v = "False")}
      [] f = "logging.level" -> {PyStr("DEBUG")}
      [] f = "logging.format" -> {PyStr("%(message)s")}
      [] f = "logging.file" -> {PyStr("test.log")}
      [] f = "logging.max_size" -> {PyInt("1048576")}
      [] f = "logging.backup_count" -> {PyInt("3")}
      [] f = "pi_ip" -> {PyStr("192.168.1.100")}
      [] f = "pi_username" -> {PyStr("testuser")}
      [] f = "pi_password" -> {PyStr("testpass"), PyStr("1234"), PyStr("null")}

\* plain YAML scalars and the type the resolver of safe_load gives them;
\* any other plain scalar is a string
IntTexts == {DefaultConfig[f].v : f \in {g \in ConfigFields : DefaultConfig[g].t = "int"}}
               \cup {a.v : a \in UNION {Assignable(f) : f \in {g \in ConfigFields : DefaultConfig[g].t = "int"}}}
               \cup {"1234"}
BoolTexts == {"true", "false"}
NullTexts == {"null"}

resolve(text) ==
    IF text \in NullTexts THEN "none"
    ELSE IF text \in BoolTexts THEN "bool"
    ELSE IF text \in IntTexts THEN "int"
    ELSE "str"

\* yaml.dump of one scalar: a string is written plain unless a plain scalar
\* of that text would be read back as another type, then it is quoted
represent(x) ==
    CASE x.t = "none" -> [style |-> "plain", text |-> "null"]
      [] x.t = "bool" -> [style |-> "plain", text |-> IF x.v = "True" THEN "true" ELSE "false"]
      [] x.t = "int"  -> [style |-> "plain", text |-> x.v]
      [] x.t = "str"  -> [style |-> IF resolve(x.v) = "str" THEN "plain" ELSE "quoted",
                          text |-> x.v]

\* yaml.safe_load of one scalar
construct(sc) ==
    IF sc.style = "quoted" THEN PyStr(sc.text)
    ELSE CASE resolve(sc.text) = "none" -> PyNone
           [] resolve(sc.text) = "bool" -> PyBool(sc.text = "true")
           [] resolve(sc.text) = "int"  -> PyInt(sc.text)
           [] resolve(sc.text) = "str"  -> PyStr(sc.text)

\* to_dict(): every field, under its section
to_dict(c) == [f \in ConfigFields |-> c[f]]

\* yaml.dump(d, f) and yaml.safe_load(f), key by key
yaml_dump(d) == [k \in DOMAIN d |-> represent(d[k])]
safe_load(doc) == [k \in DOMAIN doc |-> construct(doc[k])]

\* the keys _update_from_dict copies when they are present
UpdatedFields == NetworkFields \cup CameraFields \cup KinectFields
                    \cup {"logging.level", "logging.format", "logging.file"}
                    \cup TopFields

\* _update_from_dict(data)
update_from_dict(c, data) ==
    [f \in ConfigFields |-> IF f \in UpdatedFields /\ f \in DOMAIN data THEN data[f] ELSE c[f]]

\* the environment: either nothing is set or PI_KINECT_HOST is
EnvChoices == {"unset", "host"}

\* _load_from_env()
load_from_env(c, env) ==
    IF env = "host" THEN [c EXCEPT !["network.host"] = PyStr("192.168.1.200")] ELSE c

NoFile == [k \in {} |-> PyNone]
NoConfig == [k \in {} |-> PyNone]

\* Config.load(config_path): defaults, then the file when it exists and is
\* not empty, then the environment
load(file, env) ==
    LET data == safe_load(file)
        fromfile == IF DOMAIN file # {} THEN update_from_dict(DefaultConfig, data)
                    ELSE DefaultConfig
    IN load_from_env(fromfile, env)

\* _tone_map_depth has not been called and /depth has not been asked for
ToneDefaults ==
    /\ tone_pc = "ready"
    /\ depth_frame = <<>>
    /\ tone_out = [image |-> <<>>, divided_by_zero |-> FALSE]
    /\ depth_body = [served |-> FALSE, snapshot |-> <<>>, gray |-> <<>>]

\* no Config was saved or loaded
CfgDefaults ==
    /\ cfg_pc = "made"
    /\ cfg_made = DefaultConfig
    /\ cfg_env = "unset"
    /\ cfg_file = NoFile
    /\ cfg_loaded = NoConfig

\* no camera answers
ScanDefaults == cam_outs = [i \in 1..Len(CapNames) |-> "closed"]

\* RobustFreenect.__init__ / SimpleFreenect.__init__: empty slot, free lock
DrvDefaults ==
    /\ delivered = 0
    /\ dropped = 0
    /\ video_data = NoFrame
    /\ video_lock = None
    /\ loop_pc = "events"
    /\ loop_got = NoFrame
    /\ cycle_mark = 0
    /\ reader_pc = "idle"
    /\ reader_got = NoFrame

PureDefaults == ToneDefaults /\ CfgDefaults /\ ScanDefaults /\ DrvDefaults

\* no frame has been obtained and no reader has called yet
FrameDefaults ==
    /\ pubs = 0
    /\ heap = [a \in ArrayIds |-> <<>>]
    /\ wr_pc = "idle"
    /\ wr_kind = "rgb"
    /\ wr_src = NoFrame
    /\ wr_i = 1
    /\ lock = [l \in LockNames |-> None]
    /\ rd_pc = [r \in Readers |-> "idle"]
    /\ rd_req = [r \in Readers |-> None]
    /\ rd_ref = [r \in Readers |-> NoFrame]
    /\ rd_buf = [r \in Readers |-> <<>>]
    /\ result = [r \in Readers |-> NoResult]
    /\ response = [r \in Readers |-> NoResponse]
    /\ rd_snaps = [r \in Readers |-> <<>>]
    /\ rd_alias = [r \in Readers |-> NoFrame]
    /\ seen = [r \in Readers |-> [k \in Kinds |-> 0]]
    /\ json = [r \in Readers |-> NoJson]

ProbeConfigs == [enabled : BOOLEAN, fallback_to_opencv : BOOLEAN,
                 depth_enabled : BOOLEAN, index : ConfigIndices]

\* UnifiedKinectStreamer has no config object: its guards never look at one
ConfigsOf(v) ==
    IF v = "pi_kinect" THEN ProbeConfigs
    ELSE {c \in ProbeConfigs : c.enabled /\ c.fallback_to_opencv /\ c.depth_enabled}

\* the defaults __init__ assigns before it probes
LifeDefaults ==
    /\ running = FALSE
    /\ frame_count = 0
    /\ current_frame = NoFrame
    /\ current_depth = NoFrame
    /\ frame_queue = <<>>
    /\ depth_queue = <<>>
    /\ cap_pc = "idle"
    /\ in_use = None
    /\ last_cycle = "none"
    /\ main_pc = "constructed"
    /\ server = "none"
    /\ is_shut_down = TRUE
    /\ stop_pc = "idle"
    /\ stops = 0
    /\ status_line = FALSE

InitProbe ==
    /\ \E v \in ProbeVariants, fa \in BOOLEAN :
         \E cfg \in ConfigsOf(v) :
            IsProbeState(ProbeStart(v, fa, cfg))
    /\ launch = "direct"
    /\ LifeDefaults
    /\ FrameDefaults
    /\ PureDefaults

NextProbe ==
    \/ TryFreenectPython
    \/ TryFreenectSystem
    \/ TryOpencv
    \/ NoCameraFound

SpecProbe == InitProbe /\ [][NextProbe]_vars

(***************************************************************************)
(* Capture loop, start() and stop() of KinectStreamer / UnifiedKinectStreamer *)
(***************************************************************************)

\* Queue(maxsize=10)
QueueMaxSize == 10

\* the model stops publishing status frames at this frame_count
MaxFrames == 12

\* the model stops publishing frames read from a backend at this frame_count
MaxBackendFrames == 3

\* the model stops publishing depth frames at this depth id
MaxDepth == 2

\* number of stop() calls the model makes
MaxStops == 2

\* leading positions of the camera index list at which a camera may exist
CamsTried == 1

\* a queue that never reports itself full
full_never(q) == FALSE

\* Queue.full() of a Queue(maxsize=QueueMaxSize)
full(q) == Len(q) >= QueueMaxSize

\* _add_frame_to_queue with the queue full and the new frame dropped
add_frame_to_queue_dropnew(q, cnt, frame, cur) ==
    IF Len(q) < QueueMaxSize
    THEN [queue |-> Append(q, frame), current |-> frame, count |-> cnt + 1]
    ELSE [queue |-> q, current |-> cur, count |-> cnt]

\* KinectStreamer._add_frame_to_queue
add_frame_to_queue(q, cnt, frame, cur) ==
    IF ~full(q)
    THEN [queue |-> Append(q, frame), current |-> frame, count |-> cnt + 1]
    ELSE IF Len(q) = 0
    THEN [queue |-> q, current |-> cur, count |-> cnt]
    ELSE [queue |-> Append(Tail(q), frame), current |-> frame, count |-> cnt + 1]

\* KinectStreamer._add_depth_to_queue
add_depth_to_queue(q, depth, cur) ==
    IF ~full(q)
    THEN [queue |-> Append(q, depth), current |-> depth]
    ELSE IF Len(q) = 0
    THEN [queue |-> q, current |-> cur]
    ELSE [queue |-> Append(Tail(q), depth), current |-> depth]

\* a publication that puts the previous array back
PublishFrame_regress(v, q, cnt, frame, cur) ==
    [queue |-> q, current |-> IF cur = NoFrame \/ cur = 1 THEN frame ELSE cur - 1,
     count |-> cnt + 1]

\* publication of a color frame by the capture thread of class v
PublishFrame(v, q, cnt, frame, cur) ==
    IF v = "pi_kinect" THEN add_frame_to_queue(q, cnt, frame, cur)
    ELSE [queue |-> q, current |-> frame, count |-> cnt + 1]

\* publication of a depth frame by the capture thread of class v
PublishDepth(v, q, depth, cur) ==
    IF v = "pi_kinect" THEN add_depth_to_queue(q, depth, cur)
    ELSE [queue |-> q, current |-> depth]

\* the handle a capture cycle is about to use, None when its guard fails
\* (`if self.cap and self.cap.isOpened()`, `if self.device_handle and
\* FREENECT_AVAILABLE`, `if self.freenect_ctx and self.freenect_device`)
BackendHandle ==
    IF kinect_method = "opencv"
    THEN IF cap # None /\ cap \in opened /\ releases[cap] = 0 THEN cap ELSE None
    ELSE IF variant = "pi_kinect"
    THEN IF device_handle # None /\ FREENECT_AVAILABLE THEN device_handle ELSE None
    ELSE IF freenect_ctx # None /\ freenect_device # None THEN freenect_ctx ELSE None

\* sys.exit ends the process and its daemon capture thread
ProcessAlive == main_pc # "exited"

CycleResult(before, after) == IF after > before THEN "published" ELSE "skipped"

\* the capture loop logs its FPS line when frame_count is a multiple of this
StatusEvery == 100

\* `if self.frame_count % 100 == 0`, evaluated at the end of every cycle
\* that did not leave through the loop's except clause
StatusLine(count) == count % StatusEvery = 0

\* `while self.running` is false: the capture thread ends
CaptureExit ==
    /\ UNCHANGED <<frameVars, pureVars, logVars>>
    /\ cap_pc = "loop" /\ ProcessAlive
    /\ ~running
    /\ cap_pc' = "exited"
    /\ UNCHANGED <<probeVars, launch, running, frame_count, current_frame, current_depth,
                   frame_queue, depth_queue, in_use, last_cycle, main_pc, server,
                   is_shut_down, stop_pc, stops>>

\* one cycle with no backend: synthesize a status frame and publish it
StatusCycle ==
    /\ UNCHANGED <<frameVars, pureVars>>
    /\ cap_pc = "loop" /\ ProcessAlive
    /\ running
    /\ kinect_method = None
    /\ frame_count < MaxFrames
    /\ LET r == PublishFrame(variant, frame_queue, frame_count, frame_count + 1,
                             current_frame) IN
       /\ frame_queue' = r.queue
       /\ current_frame' = r.current
       /\ frame_count' = r.count
       /\ last_cycle' = CycleResult(frame_count, r.count)
    /\ UNCHANGED <<probeVars, launch, running, current_depth, depth_queue, cap_pc,
                   in_use, main_pc, server, is_shut_down, stop_pc, stops>>
    /\ status_line' = StatusLine(frame_count')

\* one cycle with a backend whose guard passes: the thread enters the backend call
BackendBegin ==
    /\ UNCHANGED <<frameVars, pureVars, logVars>>
    /\ cap_pc = "loop" /\ ProcessAlive
    /\ running
    /\ kinect_method # None
    /\ BackendHandle # None
    /\ cap_pc' = "backend"
    /\ in_use' = BackendHandle
    /\ UNCHANGED <<probeVars, launch, running, frame_count, current_frame, current_depth,
                   frame_queue, depth_queue, last_cycle, main_pc, server, is_shut_down,
                   stop_pc, stops>>

\* a cycle that gives the backend up when its guard fails
BackendSkip_degrade ==
    /\ UNCHANGED <<frameVars, pureVars>>
    /\ cap_pc = "loop" /\ ProcessAlive
    /\ running
    /\ kinect_method # None
    /\ BackendHandle = None
    /\ last_cycle' = "skipped"
    /\ kinect_method' = None
    /\ kinect_available' = FALSE
    /\ UNCHANGED <<variant, FREENECT_AVAILABLE, config, probe_pc, attempted,
                   device_handle, freenect_ctx, freenect_device, cap, error_message,
                   opened, releases>>
    /\ UNCHANGED <<launch, running, frame_count, current_frame, current_depth,
                   frame_queue, depth_queue, cap_pc, in_use, main_pc, server,
                   is_shut_down, stop_pc, stops>>
    /\ status_line' = StatusLine(frame_count')

\* one cycle with a backend whose guard fails: nothing is read
BackendSkip ==
    /\ UNCHANGED <<frameVars, pureVars>>
    /\ cap_pc = "loop" /\ ProcessAlive
    /\ running
    /\ kinect_method # None
    /\ BackendHandle = None
    /\ last_cycle' = "skipped"
    /\ UNCHANGED <<probeVars, launch, running, frame_count, current_frame, current_depth,
                   frame_queue, depth_queue, cap_pc, in_use, main_pc, server,
                   is_shut_down, stop_pc, stops>>
    /\ status_line' = StatusLine(frame_count')

\* does this capture cycle read depth
ReadsDepth ==
    /\ kinect_method # "opencv"
    /\ variant = "pi_kinect" => config.depth_enabled

\* a read that bumps frame_count although it published nothing
NoPublish_counts(q, cnt, cur) == [queue |-> q, current |-> cur, count |-> cnt + 1]

\* a read that failed or returned None: _add_frame_to_queue is not called
NoPublish(q, cnt, cur) == [queue |-> q, current |-> cur, count |-> cnt]

RgbOutcomes == {"frame", "noframe", "raises"}

DepthOutcomes == {"depth", "nodepth", "raises"}

\* the backend call returns with outcome rgb for the color read and d for
\* the depth read; an exception is logged by the cycle's own try/except
BackendEndWith(rgb, d) ==
    /\ UNCHANGED <<frameVars, pureVars>>
    /\ cap_pc = "backend" /\ ProcessAlive
    /\ rgb = "frame" => frame_count < MaxBackendFrames
    /\ d = "depth" => current_depth < MaxDepth
    /\ d # "nodepth" => (ReadsDepth /\ rgb # "raises")
    /\ LET r == IF rgb = "frame"
                THEN PublishFrame(variant, frame_queue, frame_count,
                                  frame_count + 1, current_frame)
                ELSE NoPublish(frame_queue, frame_count, current_frame)
           dr == IF d = "depth"
                 THEN PublishDepth(variant, depth_queue, current_depth + 1,
                                   current_depth)
                 ELSE [queue |-> depth_queue, current |-> current_depth]
       IN /\ frame_queue' = r.queue
          /\ current_frame' = r.current
          /\ frame_count' = r.count
          /\ depth_queue' = dr.queue
          /\ current_depth' = dr.current
          /\ last_cycle' = CycleResult(frame_count, r.count)
    /\ cap_pc' = "loop"
    /\ in_use' = None
    /\ UNCHANGED <<probeVars, launch, running, main_pc, server, is_shut_down, stop_pc,
                   stops>>
    /\ status_line' = StatusLine(frame_count')

\* the backend call returns: a frame, no frame, or an exception
BackendEnd ==
    \E rgb \in RgbOutcomes, d \in DepthOutcomes : BackendEndWith(rgb, d)

\* start(): set running, start the capture thread, bind the HTTP server and
\* enter serve_forever; a bind failure makes start() return False and the
\* caller exit
Start ==
    /\ UNCHANGED <<frameVars, pureVars, logVars>>
    /\ main_pc = "constructed"
    /\ running' = TRUE
    /\ cap_pc' = "loop"
    /\ \E bind \in {"ok", "address_in_use"} :
         IF bind = "ok"
         THEN /\ server' = "set"
              /\ is_shut_down' = FALSE
              /\ main_pc' = "serving"
         ELSE /\ main_pc' = "exited"
              /\ UNCHANGED <<server, is_shut_down>>
    /\ UNCHANGED <<probeVars, launch, frame_count, current_frame, current_depth,
                   frame_queue, depth_queue, in_use, last_cycle, stop_pc, stops>>

\* SIGINT/SIGTERM while serve_forever runs in the main thread: with the
\* handlers of start_streaming installed the handler runs on top of the
\* suspended serve_forever; without them KeyboardInterrupt unwinds serve_forever
Interrupt ==
    /\ UNCHANGED <<frameVars, pureVars, logVars>>
    /\ main_pc = "serving"
    /\ IF launch = "cli"
       THEN /\ main_pc' = "in_handler"
            /\ UNCHANGED is_shut_down
       ELSE /\ main_pc' = "interrupted"
            /\ is_shut_down' = TRUE
    /\ UNCHANGED <<probeVars, launch, running, frame_count, current_frame, current_depth,
                   frame_queue, depth_queue, cap_pc, in_use, last_cycle, server,
                   stop_pc, stops>>

\* may stop() be called now: from the handler or except clause, or once more
\* after an earlier call returned
StopCallable ==
    /\ main_pc \in {"in_handler", "interrupted"}
    /\ \/ stop_pc = "idle"
       \/ stop_pc = "returned" /\ stops < MaxStops

\* KinectStreamer.stop(), first statement: running = False
StopCall ==
    /\ UNCHANGED <<frameVars, pureVars, logVars>>
    /\ variant = "pi_kinect"
    /\ StopCallable
    /\ running' = FALSE
    /\ stops' = stops + 1
    /\ stop_pc' = "shutdown"
    /\ UNCHANGED <<probeVars, launch, frame_count, current_frame, current_depth,
                   frame_queue, depth_queue, cap_pc, in_use, last_cycle, main_pc,
                   server, is_shut_down>>

\* KinectStreamer.stop(): `if self.server: self.server.shutdown()`, which
\* returns once serve_forever has ended
StopShutdownServer ==
    /\ UNCHANGED <<frameVars, pureVars, logVars>>
    /\ stop_pc = "shutdown"
    /\ server = "set" => is_shut_down
    /\ server' = "none"
    /\ stop_pc' = "join"
    /\ UNCHANGED <<probeVars, launch, running, frame_count, current_frame, current_depth,
                   frame_queue, depth_queue, cap_pc, in_use, last_cycle, main_pc,
                   is_shut_down, stops>>

\* KinectStreamer.stop(): capture_thread.join(timeout=5.0) returns when the
\* thread has ended, or after 5 seconds while the thread is still inside a
\* backend call
StopJoin ==
    /\ UNCHANGED <<frameVars, pureVars, logVars>>
    /\ stop_pc = "join"
    /\ cap_pc \in {"idle", "exited", "dead", "backend"}
    /\ stop_pc' = "cleanup"
    /\ UNCHANGED <<probeVars, launch, running, frame_count, current_frame, current_depth,
                   frame_queue, depth_queue, cap_pc, in_use, last_cycle, main_pc,
                   server, is_shut_down, stops>>

\* KinectStreamer.stop(): release the capture and shut the device handle down
StopCleanup ==
    /\ UNCHANGED <<frameVars, pureVars, logVars>>
    /\ stop_pc = "cleanup"
    /\ LET rs == (IF cap # None THEN {cap} ELSE {}) \cup
                 (IF device_handle # None /\ FREENECT_AVAILABLE
                  THEN {device_handle} ELSE {}) IN
       releases' = Released(releases, rs)
    /\ cap' = None
    /\ device_handle' = IF device_handle # None /\ FREENECT_AVAILABLE
                        THEN None ELSE device_handle
    /\ stop_pc' = "returned"
    /\ UNCHANGED <<variant, FREENECT_AVAILABLE, config, probe_pc, attempted,
                   kinect_available, kinect_method, freenect_ctx, freenect_device,
                   error_message, opened>>
    /\ UNCHANGED <<launch, running, frame_count, current_frame, current_depth,
                   frame_queue, depth_queue, cap_pc, in_use, last_cycle, main_pc,
                   server, is_shut_down, stops>>

\* UnifiedKinectStreamer.stop()
UnifiedStop ==
    /\ UNCHANGED <<frameVars, pureVars, logVars>>
    /\ variant = "unified"
    /\ StopCallable
    /\ running' = FALSE
    /\ stops' = stops + 1
    /\ LET rs == (IF cap # None THEN {cap} ELSE {}) \cup
                 (IF freenect_ctx # None /\ FREENECT_AVAILABLE
                  THEN {freenect_ctx} ELSE {}) IN
       releases' = Released(releases, rs)
    /\ stop_pc' = "returned"
    /\ UNCHANGED <<variant, FREENECT_AVAILABLE, config, probe_pc, attempted,
                   kinect_available, kinect_method, device_handle, freenect_ctx,
                   freenect_device, cap, error_message, opened>>
    /\ UNCHANGED <<launch, frame_count, current_frame, current_depth, frame_queue,
                   depth_queue, cap_pc, in_use, last_cycle, main_pc, server,
                   is_shut_down>>

\* the handler's sys.exit(0), or the return of start() to a caller that exits
ProcessExit ==
    /\ UNCHANGED <<frameVars, pureVars, logVars>>
    /\ main_pc \in {"in_handler", "interrupted"}
    /\ stop_pc = "returned"
    /\ main_pc' = "exited"
    /\ UNCHANGED <<probeVars, launch, running, frame_count, current_frame, current_depth,
                   frame_queue, depth_queue, cap_pc, in_use, last_cycle, server,
                   is_shut_down, stop_pc, stops>>

\* a /status body that leaves the error message out
StatusJson_noerror ==
    [NoJson EXCEPT !.running = running, !.frame_count = frame_count,
                   !.kinect_available = kinect_available]

\* _serve_status: the fields read from the streamer
StatusJson ==
    [NoJson EXCEPT !.running = running, !.frame_count = frame_count,
                   !.kinect_available = kinect_available,
                   !.error_message = error_message]

\* GET /status, handled by serve_forever on the main thread
ServeStatus ==
    /\ UNCHANGED <<pureVars, logVars>>
    /\ main_pc = "serving"
    /\ response' = [response EXCEPT !["http"] =
                       [req |-> "/status", status |-> 200, body |-> "json"]]
    /\ json' = [json EXCEPT !["http"] = StatusJson]
    /\ UNCHANGED <<probeVars, lifeVars, pubs, heap, wr_pc, wr_kind, wr_src, wr_i, lock,
                   rd_pc, rd_req, rd_ref, rd_buf, result, rd_snaps, rd_alias, seen>>

\* camera behaviours in which only the first CamsTried list positions can open
LifeCams == {c \in AllCams : \A i \in 1..Len(CapNames) : i > CamsTried => c[i] = "closed"}

LifeInputs == [py : PyOutcomes, sys : SysOutcomes, cams : LifeCams]

LaunchesOf(v) == IF v = "pi_kinect" THEN {"cli", "direct"} ELSE {"direct"}

\* a constructed streamer: __init__ has run the whole probe
Init ==
    /\ \E v \in ProbeVariants, fa \in BOOLEAN :
         \E cfg \in ConfigsOf(v), in \in LifeInputs :
            /\ IsProbeState(detect_and_initialize_device(ProbeStart(v, fa, cfg), in))
            /\ launch \in LaunchesOf(v)
    /\ LifeDefaults
    /\ FrameDefaults
    /\ PureDefaults

Next ==
    \/ Start
    \/ CaptureExit
    \/ StatusCycle
    \/ BackendBegin
    \/ BackendSkip
    \/ BackendEnd
    \/ Interrupt
    \/ StopCall
    \/ StopShutdownServer
    \/ StopJoin
    \/ StopCleanup
    \/ UnifiedStop
    \/ ProcessExit
    \/ ServeStatus

Spec == Init /\ [][Next]_vars

(***************************************************************************)
(* Publication of frames and the readers: get_frame, get_depth_frame and    *)
(* the HTTP handlers of all four streamer classes                          *)
(***************************************************************************)

\* a store that copies into the published array instead of replacing it
InPlace_always(v) == TRUE

\* does the capture loop store a frame with np.copyto into the array readers
\* copy from (RobustKinectStreamer.video_buffer), or by assigning a reference
InPlace(v) == v = "robust"

\* do the writer and the readers take a lock around the frame field
Locking(v) == v \in {"unified", "simple"}

\* UnifiedKinectStreamer.lock; SimpleFreenect.video_lock / depth_lock
LockOf(v, k) ==
    IF v = "unified" THEN "lock"
    ELSE IF k = "rgb" THEN "video_lock" ELSE "depth_lock"

\* the frame kinds the capture loop stores for readers; RobustKinectStreamer
\* only pushes depth to RTP and never writes depth_buffer
KindsWritten(v) == IF v = "robust" THEN {"rgb"} ELSE Kinds

\* is the capture cycle wrapped in try/except Exception
CatchesCycleErrors(v) == v # "simple"

\* the field a reader of kind k looks at
Current(k) == IF k = "rgb" THEN current_frame ELSE current_depth

FreshArray(p) == [i \in 1..FrameLen |-> p]

\* ids below which arrays exist from construction
Base(v) == IF v = "robust" THEN 2 ELSE 0

APICalls == {"get_frame", "get_depth_frame"}

HTTPPaths == {"/stream", "/depth"}

\* the path answered with one JSON document about both kinds
JSONPaths == {"/frame"}

RequestsOf(r) == IF r = "api" THEN APICalls ELSE HTTPPaths \cup JSONPaths

\* do_GET: only KinectHTTPHandler and UnifiedHTTPHandler route /frame
Offered(v) ==
    APICalls \cup HTTPPaths \cup (IF v \in ProbeVariants THEN JSONPaths ELSE {})

KindOf(req) == IF req \in {"get_frame", "/stream"} THEN "rgb" ELSE "depth"

\* _serve_stream / _serve_depth_stream after get_frame / get_depth_frame
\* returned: send_error(503) or a 200 image response
Respond(v, req, isnone) ==
    IF req \notin HTTPPaths THEN NoResponse
    ELSE IF ~isnone THEN [req |-> req, status |-> 200, body |-> "frame"]
    ELSE IF req = "/stream" /\ v \in ProbeVariants
    THEN [req |-> req, status |-> 503, body |-> "error"]
    ELSE [req |-> req, status |-> 200, body |-> "placeholder"]

\* the backend hands the capture thread a frame: a newly allocated array
\* whose pixels all belong to this frame
CapRead ==
    /\ UNCHANGED <<pureVars, logVars>>
    /\ cap_pc = "loop" /\ running
    /\ wr_pc = "idle"
    /\ pubs < MaxPubs
    /\ \E k \in KindsWritten(variant) : wr_kind' = k
    /\ pubs' = pubs + 1
    /\ wr_src' = Base(variant) + pubs + 1
    /\ heap' = [heap EXCEPT ![Base(variant) + pubs + 1] = FreshArray(pubs + 1)]
    /\ wr_i' = 1
    /\ wr_pc' = "store"
    /\ UNCHANGED <<probeVars, lifeVars, lock, rd_pc, rd_req, rd_ref, rd_buf, result,
                   response, rd_snaps, rd_alias, seen, json>>

\* does this store copy into the array readers see
StoresInPlace == InPlace(variant) /\ Current(wr_kind) # NoFrame

\* np.copyto(self.video_buffer, video_frame), one pixel of it
CapStorePixel ==
    /\ UNCHANGED <<pureVars, logVars>>
    /\ wr_pc = "store"
    /\ StoresInPlace
    /\ wr_i <= FrameLen
    /\ heap' = [heap EXCEPT ![Current(wr_kind)][wr_i] = heap[wr_src][wr_i]]
    /\ wr_i' = wr_i + 1
    /\ UNCHANGED <<probeVars, lifeVars, pubs, wr_pc, wr_kind, wr_src, lock, rd_pc,
                   rd_req, rd_ref, rd_buf, result, response, rd_snaps, rd_alias, seen,
                   json>>

\* the end of a store: the reference assignment (under the lock where the
\* class has one) and frame_count += 1
CapPublish ==
    /\ UNCHANGED <<pureVars, logVars>>
    /\ wr_pc = "store"
    /\ StoresInPlace => wr_i > FrameLen
    /\ (Locking(variant) /\ ~StoresInPlace) => lock[LockOf(variant, wr_kind)] = None
    /\ IF StoresInPlace
       THEN /\ frame_count' = frame_count + 1
            /\ UNCHANGED <<current_frame, current_depth, frame_queue, depth_queue>>
       ELSE IF wr_kind = "rgb"
       THEN LET r == PublishFrame(variant, frame_queue, frame_count, wr_src,
                                  current_frame) IN
            /\ frame_queue' = r.queue
            /\ current_frame' = r.current
            /\ frame_count' = r.count
            /\ UNCHANGED <<current_depth, depth_queue>>
       ELSE LET d == PublishDepth(variant, depth_queue, wr_src, current_depth) IN
            /\ depth_queue' = d.queue
            /\ current_depth' = d.current
            /\ UNCHANGED <<current_frame, frame_queue, frame_count>>
    /\ last_cycle' = "published"
    /\ wr_pc' = "idle"
    /\ wr_src' = NoFrame
    /\ wr_i' = 1
    /\ UNCHANGED <<probeVars, launch, running, cap_pc, in_use, main_pc, server,
                   is_shut_down, stop_pc, stops>>
    /\ UNCHANGED <<pubs, heap, wr_kind, lock, rd_pc, rd_req, rd_ref, rd_buf, result,
                   response, rd_snaps, rd_alias, seen, json>>

\* an exception is raised inside a capture cycle
CapRaise ==
    /\ UNCHANGED <<pureVars, logVars>>
    /\ cap_pc = "loop" /\ running
    /\ wr_pc = "idle"
    /\ last_cycle' = "raised"
    /\ cap_pc' = IF CatchesCycleErrors(variant) THEN "loop" ELSE "dead"
    /\ UNCHANGED <<probeVars, launch, running, frame_count, current_frame, current_depth,
                   frame_queue, depth_queue, in_use, main_pc, server, is_shut_down,
                   stop_pc, stops, frameVars>>

\* the get_* calls a request makes, in order, with /frame reading color twice
CallsOf_reread(req) ==
    IF req = "/frame" THEN <<"rgb", "rgb", "depth">> ELSE <<KindOf(req)>>

\* the get_* calls a request makes, in order: _serve_frame calls get_frame
\* and then get_depth_frame, every other reader makes one call
CallsOf(req) ==
    IF req = "/frame" THEN <<"rgb", "depth">> ELSE <<KindOf(req)>>

\* the kind the call in progress reads
KindNow(r) == CallsOf(rd_req[r])[Len(rd_snaps[r]) + 1]

\* get_frame that hands out the published array itself
ReturnsCopy_alias(v) == FALSE

\* get_frame / get_depth_frame return `<field>.copy()`
ReturnsCopy(v) == TRUE

\* the first and the last snapshot of kind k among the returns of one request
FirstOf(k, snaps) ==
    snaps[CHOOSE i \in 1..Len(snaps) :
             snaps[i].kind = k /\ \A j \in 1..(i - 1) : snaps[j].kind # k]

LastOf(k, snaps) ==
    snaps[CHOOSE i \in 1..Len(snaps) :
             snaps[i].kind = k /\ \A j \in (i + 1)..Len(snaps) : snaps[j].kind # k]

\* _serve_frame: the JSON fields built from `frame` and `depth_frame`
FrameJson(snaps) ==
    [NoJson EXCEPT
       !.rgb_available = FirstOf("rgb", snaps).state = "frame",
       !.depth_available = FirstOf("depth", snaps).state = "frame",
       !.has_rgb_data = LastOf("rgb", snaps).state = "frame",
       !.has_depth_data = LastOf("depth", snaps).state = "frame",
       !.rgb_data = LastOf("rgb", snaps).pix,
       !.depth_data = LastOf("depth", snaps).pix]

\* /frame answering like /stream: an error when a kind is absent
ResponseFor_unavailable(v, req, snaps) ==
    IF req = "/frame"
    THEN IF \E i \in 1..Len(snaps) : snaps[i].state = "none"
         THEN [req |-> req, status |-> 503, body |-> "error"]
         ELSE [req |-> req, status |-> 200, body |-> "json"]
    ELSE Respond(v, req, snaps[Len(snaps)].state = "none")

\* the response a handler sends once its get_* calls have returned
ResponseFor(v, req, snaps) ==
    IF req = "/frame" THEN [req |-> req, status |-> 200, body |-> "json"]
    ELSE Respond(v, req, snaps[Len(snaps)].state = "none")

JsonFor(req, snaps) == IF req = "/frame" THEN FrameJson(snaps) ELSE NoJson

\* a reader calls get_frame / get_depth_frame, directly or from an HTTP
\* handler: it takes the lock where there is one and tests the field for None
Request(r) ==
    /\ UNCHANGED <<pureVars, logVars>>
    /\ rd_pc[r] = "idle"
    /\ \E req \in RequestsOf(r) \cap Offered(variant) :
         LET k == CallsOf(req)[1]
             l == LockOf(variant, k)
             none == <<[kind |-> k, state |-> "none", pix |-> <<>>]>> IN
         /\ Locking(variant) => lock[l] = None
         /\ IF Current(k) = NoFrame
            THEN /\ result' = [result EXCEPT ![r] =
                                  [state |-> "none", req |-> req, pix |-> <<>>]]
                 /\ rd_snaps' = [rd_snaps EXCEPT ![r] = none]
                 /\ IF Len(CallsOf(req)) = 1
                    THEN /\ response' = [response EXCEPT ![r] =
                                            ResponseFor(variant, req, none)]
                         /\ json' = [json EXCEPT ![r] = JsonFor(req, none)]
                         /\ UNCHANGED <<rd_pc, rd_req>>
                    ELSE /\ response' = [response EXCEPT ![r] = NoResponse]
                         /\ json' = [json EXCEPT ![r] = NoJson]
                         /\ rd_pc' = [rd_pc EXCEPT ![r] = "next"]
                         /\ rd_req' = [rd_req EXCEPT ![r] = req]
                 /\ UNCHANGED lock
            ELSE /\ result' = [result EXCEPT ![r] = NoResult]
                 /\ response' = [response EXCEPT ![r] = NoResponse]
                 /\ json' = [json EXCEPT ![r] = NoJson]
                 /\ rd_snaps' = [rd_snaps EXCEPT ![r] = <<>>]
                 /\ rd_pc' = [rd_pc EXCEPT ![r] = "load"]
                 /\ rd_req' = [rd_req EXCEPT ![r] = req]
                 /\ lock' = IF Locking(variant) THEN [lock EXCEPT ![l] = r] ELSE lock
    /\ rd_alias' = [rd_alias EXCEPT ![r] = NoFrame]
    /\ UNCHANGED <<probeVars, lifeVars, pubs, heap, wr_pc, wr_kind, wr_src, wr_i,
                   rd_ref, rd_buf, seen>>

\* what follows the return of one get_* call: the next call or the response
AfterCall(r, snaps) ==
    IF Len(snaps) < Len(CallsOf(rd_req[r]))
    THEN /\ rd_pc' = [rd_pc EXCEPT ![r] = "next"]
         /\ UNCHANGED <<rd_req, response, json>>
    ELSE /\ rd_pc' = [rd_pc EXCEPT ![r] = "idle"]
         /\ rd_req' = [rd_req EXCEPT ![r] = None]
         /\ response' = [response EXCEPT ![r] = ResponseFor(variant, rd_req[r], snaps)]
         /\ json' = [json EXCEPT ![r] = JsonFor(rd_req[r], snaps)]

\* a handler makes its next get_* call
NextCall(r) ==
    /\ UNCHANGED <<pureVars, logVars>>
    /\ rd_pc[r] = "next"
    /\ LET k == KindNow(r)
           l == LockOf(variant, k) IN
       /\ Locking(variant) => lock[l] = None
       /\ IF Current(k) = NoFrame
          THEN LET snaps == Append(rd_snaps[r],
                                   [kind |-> k, state |-> "none", pix |-> <<>>]) IN
               /\ result' = [result EXCEPT ![r] =
                                [state |-> "none", req |-> rd_req[r], pix |-> <<>>]]
               /\ rd_snaps' = [rd_snaps EXCEPT ![r] = snaps]
               /\ AfterCall(r, snaps)
               /\ UNCHANGED lock
          ELSE /\ rd_pc' = [rd_pc EXCEPT ![r] = "load"]
               /\ lock' = IF Locking(variant) THEN [lock EXCEPT ![l] = r] ELSE lock
               /\ UNCHANGED <<result, rd_snaps, rd_req, response, json>>
    /\ UNCHANGED <<probeVars, lifeVars, pubs, heap, wr_pc, wr_kind, wr_src, wr_i,
                   rd_ref, rd_buf, rd_alias, seen>>

\* the reader loads the field a second time, to call copy() on it
ReadLoad(r) ==
    /\ UNCHANGED <<pureVars, logVars>>
    /\ rd_pc[r] = "load"
    /\ rd_ref' = [rd_ref EXCEPT ![r] = Current(KindNow(r))]
    /\ rd_pc' = [rd_pc EXCEPT ![r] = "copy"]
    /\ UNCHANGED <<probeVars, lifeVars, pubs, heap, wr_pc, wr_kind, wr_src, wr_i, lock,
                   rd_req, rd_buf, result, response, rd_snaps, rd_alias, seen, json>>

\* ndarray.copy(), one pixel of it
ReadCopyPixel(r) ==
    /\ UNCHANGED <<pureVars, logVars>>
    /\ rd_pc[r] = "copy"
    /\ Len(rd_buf[r]) < FrameLen
    /\ rd_buf' = [rd_buf EXCEPT ![r] = Append(@, heap[rd_ref[r]][Len(@) + 1])]
    /\ UNCHANGED <<probeVars, lifeVars, pubs, heap, wr_pc, wr_kind, wr_src, wr_i, lock,
                   rd_pc, rd_req, rd_ref, result, response, rd_snaps, rd_alias, seen,
                   json>>

\* the copy is returned (the lock is released); a handler goes on to its
\* next call or answers
ReadReturn(r) ==
    /\ UNCHANGED <<pureVars, logVars>>
    /\ rd_pc[r] = "copy"
    /\ Len(rd_buf[r]) = FrameLen
    /\ LET k == KindNow(r)
           snaps == Append(rd_snaps[r],
                           [kind |-> k, state |-> "frame", pix |-> rd_buf[r]]) IN
       /\ result' = [result EXCEPT ![r] =
                        [state |-> "frame", req |-> rd_req[r], pix |-> rd_buf[r]]]
       /\ rd_snaps' = [rd_snaps EXCEPT ![r] = snaps]
       /\ seen' = [seen EXCEPT ![r][k] = rd_buf[r][1]]
       /\ lock' = IF Locking(variant)
                  THEN [lock EXCEPT ![LockOf(variant, k)] = None]
                  ELSE lock
       /\ AfterCall(r, snaps)
    /\ rd_alias' = [rd_alias EXCEPT ![r] =
                       IF ReturnsCopy(variant) THEN NoFrame ELSE rd_ref[r]]
    /\ rd_ref' = [rd_ref EXCEPT ![r] = NoFrame]
    /\ rd_buf' = [rd_buf EXCEPT ![r] = <<>>]
    /\ UNCHANGED <<probeVars, lifeVars, pubs, heap, wr_pc, wr_kind, wr_src, wr_i>>

\* the configuration the frame model runs under
FramesConfig == [enabled |-> TRUE, fallback_to_opencv |-> TRUE, depth_enabled |-> TRUE,
                 index |-> 0]

\* the probe result the frame model runs under: the Python binding works;
\* the classes without a probe keep the defaults
FramesProbe(v) ==
    IF v \in ProbeVariants
    THEN detect_and_initialize_device(ProbeStart(v, TRUE, FramesConfig),
            [py |-> "ok", sys |-> "ok", cams |-> [i \in 1..Len(CapNames) |-> "closed"]])
    ELSE [ProbeStart(v, TRUE, FramesConfig) EXCEPT !.probe_pc = "done"]

\* a started streamer that is serving, before its first capture cycle;
\* RobustKinectStreamer starts with its two zero-filled buffers
InitFrames ==
    /\ \E v \in FrameVariants :
         /\ IsProbeState(FramesProbe(v))
         /\ current_frame = IF v = "robust" THEN 1 ELSE NoFrame
         /\ current_depth = IF v = "robust" THEN 2 ELSE NoFrame
         /\ heap = [a \in ArrayIds |-> IF v = "robust" /\ a <= Base(v)
                                       THEN FreshArray(0) ELSE <<>>]
    /\ launch = "direct"
    /\ running = TRUE
    /\ frame_count = 0
    /\ frame_queue = <<>>
    /\ depth_queue = <<>>
    /\ cap_pc = "loop"
    /\ in_use = None
    /\ last_cycle = "none"
    /\ main_pc = "serving"
    /\ server = "set"
    /\ is_shut_down = FALSE
    /\ stop_pc = "idle"
    /\ stops = 0
    /\ pubs = 0
    /\ wr_pc = "idle"
    /\ wr_kind = "rgb"
    /\ wr_src = NoFrame
    /\ wr_i = 1
    /\ lock = [l \in LockNames |-> None]
    /\ rd_pc = [r \in Readers |-> "idle"]
    /\ rd_req = [r \in Readers |-> None]
    /\ rd_ref = [r \in Readers |-> NoFrame]
    /\ rd_buf = [r \in Readers |-> <<>>]
    /\ result = [r \in Readers |-> NoResult]
    /\ response = [r \in Readers |-> NoResponse]
    /\ rd_snaps = [r \in Readers |-> <<>>]
    /\ rd_alias = [r \in Readers |-> NoFrame]
    /\ seen = [r \in Readers |-> [k \in Kinds |-> 0]]
    /\ json = [r \in Readers |-> NoJson]
    /\ PureDefaults
    /\ status_line = FALSE

NextFrames ==
    \/ CapRead
    \/ CapStorePixel
    \/ CapPublish
    \/ CapRaise
    \/ \E r \in Readers : Request(r)
    \/ \E r \in Readers : NextCall(r)
    \/ \E r \in Readers : ReadLoad(r)
    \/ \E r \in Readers : ReadCopyPixel(r)
    \/ \E r \in Readers : ReadReturn(r)

SpecFrames == InitFrames /\ [][NextFrames]_vars

(***************************************************************************)
(* RobustKinectStreamer._tone_map_depth: 16-bit depth to an 8-bit preview   *)
(***************************************************************************)
MaxSamples == 4

\* first value that is no longer a valid depth sample
ValidLimit == 2048

\* the two percentiles that bound the normalisation
LowPercent == 1
HighPercent == 99

\* percentiles are carried as integers, multiplied by PercentScale
PercentScale == 100

\* brightest value of the 8-bit preview
PreviewMax == 255

\* the depth samples a frame is built from: the two invalid readings (0 and
\* the first value past the valid range), the two ends of the valid range
\* and two neighbouring values inside it
DepthSamples == {0, 1, 700, 701, ValidLimit - 1, ValidLimit}

\* the mask without the ceiling: depth_frame > 0 alone
valid_mask_noceiling(f) == [i \in 1..Len(f) |-> f[i] > 0]

\* (depth_frame > 0) & (depth_frame < 2048), sample by sample
valid_mask(f) == [i \in 1..Len(f) |-> f[i] > 0 /\ f[i] < ValidLimit]

\* depth_frame[valid_mask]
valid_depth(f) == LET mask == valid_mask(f)
                      RECURSIVE pick(_)
                      pick(i) == IF i > Len(f) THEN <<>>
                                 ELSE IF mask[i] THEN <<f[i]>> \o pick(i + 1)
                                 ELSE pick(i + 1)
                  IN pick(1)

\* the k-th smallest element of a (1-based), as np.percentile finds it after
\* partitioning the array
KthSmallest(a, k) ==
    CHOOSE v \in {a[i] : i \in 1..Len(a)} :
        /\ Cardinality({i \in 1..Len(a) : a[i] < v}) < k
        /\ k <= Cardinality({i \in 1..Len(a) : a[i] <= v})

\* np.percentile(a, q) for a non-empty a, times PercentScale: the default
\* method interpolates linearly between the two order statistics around the
\* position q/100 * (n - 1)
percentile(a, q) ==
    LET pos  == q * (Len(a) - 1)
        lo   == pos \div PercentScale
        frac == pos % PercentScale
        low  == KthSmallest(a, lo + 1)
    IN IF frac = 0 THEN PercentScale * low
       ELSE PercentScale * low + frac * (KthSmallest(a, lo + 2) - low)

\* np.zeros_like(depth_frame, dtype=np.uint8)
zeros_like(f) == [i \in 1..Len(f) |-> 0]

\* one sample of (np.clip((x - min) / (max - min), 0, 1) * 255).astype(np.uint8)
\* without the clip: the conversion to uint8 wraps what exceeds one byte
normalized_noclip(x, min_depth, max_depth) ==
    LET num == PercentScale * x - min_depth
        den == max_depth - min_depth
    IN ((PreviewMax * num) \div den) % (PreviewMax + 1)

\* one sample of (np.clip((x - min) / (max - min), 0, 1) * 255).astype(np.uint8):
\* min_depth and max_depth are percentiles times PercentScale, max > min;
\* the conversion to uint8 drops the fraction
normalized(x, min_depth, max_depth) ==
    LET num == PercentScale * x - min_depth
        den == max_depth - min_depth
    IN IF num <= 0 THEN 0
       ELSE IF num >= den THEN PreviewMax
       ELSE (PreviewMax * num) \div den

\* _tone_map_depth without the test max_depth > min_depth
tone_map_depth_nocheck(f) ==
    IF ~\E i \in 1..Len(f) : valid_mask(f)[i]
    THEN [image |-> zeros_like(f), divided_by_zero |-> FALSE]
    ELSE LET min_depth == percentile(valid_depth(f), LowPercent)
             max_depth == percentile(valid_depth(f), HighPercent)
         IN [image |-> [i \in 1..Len(f) |->
                          IF max_depth = min_depth THEN 0
                          ELSE normalized(f[i], min_depth, max_depth)],
             divided_by_zero |-> max_depth - min_depth = 0]

\* _tone_map_depth(depth_frame): the preview, and whether the division was
\* evaluated with a zero divisor
tone_map_depth(f) ==
    IF ~\E i \in 1..Len(f) : valid_mask(f)[i]
    THEN [image |-> zeros_like(f), divided_by_zero |-> FALSE]
    ELSE LET min_depth == percentile(valid_depth(f), LowPercent)
             max_depth == percentile(valid_depth(f), HighPercent)
         IN IF max_depth > min_depth
            THEN [image |-> [i \in 1..Len(f) |->
                               normalized(f[i], min_depth, max_depth)],
                  divided_by_zero |-> max_depth - min_depth = 0]
            ELSE [image |-> zeros_like(f), divided_by_zero |-> FALSE]

\* the classes whose /depth handler is compared with _tone_map_depth
ToneVariants == {"pi_kinect", "robust"}

\* denominator of the fixed scale 255.0 / 2048.0 of the /depth handlers
DepthScale == 2048

\* cv2.convertScaleAbs(x, alpha=255.0/2048.0) of one sample:
\* |x * alpha| rounded to the nearest integer and saturated to 8 bits
convertScaleAbs(x) ==
    LET r == (2 * PreviewMax * x + DepthScale) \div (2 * DepthScale)
    IN IF r > PreviewMax THEN PreviewMax ELSE r

\* cv2.normalize(f, None, 0, 255, cv2.NORM_MINMAX, dtype=cv2.CV_8U): the
\* smallest sample goes to 0 and the largest to 255, rounded to the nearest
\* integer (to even on a tie); a frame with one value only becomes all zero
norm_minmax(f) ==
    IF Len(f) = 0 THEN <<>>
    ELSE LET smin == KthSmallest(f, 1)
             smax == KthSmallest(f, Len(f))
             den  == smax - smin
             round(num) ==
                 LET q == (2 * num + den) \div (2 * den)
                 IN IF (2 * num + den) % (2 * den) = 0 /\ q % 2 = 1 THEN q - 1 ELSE q
         IN IF den = 0 THEN zeros_like(f)
            ELSE [i \in 1..Len(f) |-> round(PreviewMax * (f[i] - smin))]

\* what get_depth_frame returns once depth_frame has been delivered:
\* KinectStreamer published it as current_depth; RobustKinectStreamer's
\* capture loop never writes depth_buffer, which keeps its zeros
depth_snapshot(v, f) == IF v = "robust" THEN zeros_like(f) ELSE f

\* the 8-bit image _serve_depth_stream hands to cv2.applyColorMap
depth_gray(v, snap) ==
    IF v = "robust" THEN norm_minmax(snap)
    ELSE [i \in 1..Len(snap) |-> convertScaleAbs(snap[i])]

\* the capture loop hands a depth frame to _tone_map_depth
ToneMap ==
    /\ variant = "robust"
    /\ tone_pc = "ready"
    /\ tone_out' = tone_map_depth(depth_frame)
    /\ tone_pc' = "done"
    /\ UNCHANGED <<depth_frame, depth_body, cfgVars, scanVars, drvVars, probeVars, lifeVars, frameVars, logVars>>

\* GET /depth after the depth frame was delivered: one get_depth_frame, the
\* scaling to 8 bits, then the colour map and the JPEG encoding of that image
ServeDepthStream ==
    /\ ~depth_body.served
    /\ LET snap == depth_snapshot(variant, depth_frame)
       IN depth_body' = [served |-> TRUE, snapshot |-> snap,
                         gray |-> depth_gray(variant, snap)]
    /\ UNCHANGED <<tone_pc, depth_frame, tone_out, cfgVars, scanVars, drvVars, probeVars, lifeVars, frameVars, logVars>>

\* every depth frame of up to MaxSamples samples, on a constructed
\* KinectStreamer or RobustKinectStreamer
InitTone ==
    /\ \E v \in ToneVariants : IsProbeState(FramesProbe(v))
    /\ launch = "direct"
    /\ LifeDefaults
    /\ FrameDefaults
    /\ tone_pc = "ready"
    /\ depth_frame \in UNION {[1..n -> DepthSamples] : n \in 0..MaxSamples}
    /\ tone_out = [image |-> <<>>, divided_by_zero |-> FALSE]
    /\ depth_body = [served |-> FALSE, snapshot |-> <<>>, gray |-> <<>>]
    /\ CfgDefaults
    /\ ScanDefaults
    /\ DrvDefaults

NextTone ==
    \/ ToneMap
    \/ ServeDepthStream

SpecTone == InitTone /\ [][NextTone]_vars

(***************************************************************************)
(* Config.save and Config.load                                             *)
(***************************************************************************)
MaxAssigned == 2

\* the Config objects reached from Config() by at most n field assignments
RECURSIVE AssignedConfigs(_)
AssignedConfigs(n) ==
    IF n = 0 THEN {DefaultConfig}
    ELSE LET prev == AssignedConfigs(n - 1)
         IN prev \cup UNION {{[c EXCEPT ![f] = a] : a \in Assignable(f)} :
                                c \in prev, f \in ConfigFields}

\* config.save(config_path)
Save ==
    /\ cfg_pc = "made"
    /\ cfg_file' = yaml_dump(to_dict(cfg_made))
    /\ cfg_pc' = "saved"
    /\ UNCHANGED <<cfg_made, cfg_env, cfg_loaded, toneVars, scanVars, drvVars, probeVars, lifeVars, frameVars, logVars>>

\* Config.load(config_path), called before or after the save
Load ==
    /\ cfg_pc \in {"made", "saved"}
    /\ cfg_loaded' = load(cfg_file, cfg_env)
    /\ cfg_pc' = IF cfg_pc = "saved" THEN "loaded" ELSE "loaded_nofile"
    /\ UNCHANGED <<cfg_made, cfg_env, cfg_file, toneVars, scanVars, drvVars, probeVars, lifeVars, frameVars, logVars>>

InitConfig ==
    /\ IsProbeState(FramesProbe("pi_kinect"))
    /\ launch = "direct"
    /\ LifeDefaults
    /\ FrameDefaults
    /\ ToneDefaults
    /\ ScanDefaults
    /\ DrvDefaults
    /\ cfg_pc = "made"
    /\ cfg_made \in AssignedConfigs(MaxAssigned)
    /\ cfg_env \in EnvChoices
    /\ cfg_file = NoFile
    /\ cfg_loaded = NoConfig

NextConfig ==
    \/ Save
    \/ Load

SpecConfig == InitConfig /\ [][NextConfig]_vars

(***************************************************************************)
(* _try_opencv on its own: the camera scan with its input kept in the state *)
(***************************************************************************)
\* ways the two freenect attempts fail before the scan
FailedPy == {"no_devices", "mode_raises"}
FailedSys == {"init_fails"}

\* the probe from fields s up to the guard of the OpenCV attempt
RECURSIVE BeforeOpencv(_, _)
BeforeOpencv(s, in) ==
    IF s.probe_pc \in {"freenect", "freenect_system"}
    THEN BeforeOpencv(detect_step(s, in), in)
    ELSE s

\* Method 3 with the cameras of cam_outs
ScanOpencv ==
    /\ probe_pc = "opencv"
    /\ SetProbeState(detect_step(ProbeState,
                                 [py |-> "ok", sys |-> "ok", cams |-> cam_outs]))
    /\ UNCHANGED <<lifeVars, frameVars, pureVars, logVars>>

\* a probe that has reached the OpenCV attempt, and any six cameras
InitOpencv ==
    /\ \E v \in ProbeVariants, fa \in BOOLEAN :
         \E c \in ConfigsOf(v), py \in FailedPy, sys \in FailedSys :
            LET s == BeforeOpencv(ProbeStart(v, fa, c),
                                  [py |-> py, sys |-> sys, cams |-> <<>>])
            IN s.probe_pc = "opencv" /\ IsProbeState(s)
    /\ launch = "direct"
    /\ LifeDefaults
    /\ FrameDefaults
    /\ ToneDefaults
    /\ CfgDefaults
    /\ DrvDefaults
    /\ cam_outs \in AllCams

NextOpencv ==
    \/ ScanOpencv
    \/ NoCameraFound

SpecOpencv == InitOpencv /\ [][NextOpencv]_vars

(***************************************************************************)
(* RobustFreenect / SimpleFreenect: the driver callback, the video slot and *)
(* the capture loop that counts frames                                     *)
(***************************************************************************)
MaxDelivered == 3
MaxCycles == 3

\* the classes built on a callback-fed slot
DriverVariants == {"robust", "simple"}

\* a callback that waits for the lock whoever holds it
TryLock_blocking(v) == FALSE

\* does _video_callback take video_lock with acquire(blocking=False)
\* (RobustFreenect) rather than with `with self.video_lock` (SimpleFreenect)
TryLock(v) == v = "robust"

\* the rest of the streamer, which these steps leave alone
DriverFrame ==
    UNCHANGED <<probeVars, launch, running, current_frame, current_depth, frame_queue,
                depth_queue, cap_pc, in_use, last_cycle, main_pc, server, is_shut_down,
                stop_pc, stops, frameVars, toneVars, cfgVars, scanVars, logVars>>

\* process_events finds a frame and calls _video_callback: the callback takes
\* the lock, or with acquire(blocking=False) returns at once when it is held
CallbackEnter ==
    /\ loop_pc = "events" /\ running
    /\ delivered < MaxDelivered
    /\ ~TryLock(variant) => video_lock = None
    /\ delivered' = delivered + 1
    /\ IF video_lock = None
       THEN /\ video_lock' = "callback"
            /\ loop_pc' = "callback"
            /\ UNCHANGED dropped
       ELSE /\ dropped' = dropped + 1
            /\ loop_pc' = "get"
            /\ UNCHANGED video_lock
    /\ UNCHANGED <<video_data, loop_got, cycle_mark, reader_pc, reader_got, frame_count>>
    /\ DriverFrame

\* the callback holds the lock: self.video_data = video_array.copy(), or the
\* conversion raises and the slot stays; the lock is released either way
CallbackStore ==
    /\ loop_pc = "callback"
    /\ \E outcome \in {"stored", "raises"} :
         video_data' = IF outcome = "stored" THEN delivered ELSE video_data
    /\ video_lock' = None
    /\ loop_pc' = "get"
    /\ UNCHANGED <<delivered, dropped, loop_got, cycle_mark, reader_pc, reader_got,
                   frame_count>>
    /\ DriverFrame

\* process_events finds nothing to deliver
NoEvent ==
    /\ loop_pc = "events" /\ running
    /\ frame_count < MaxCycles
    /\ loop_pc' = "get"
    /\ UNCHANGED <<delivered, dropped, video_data, video_lock, loop_got, cycle_mark,
                   reader_pc, reader_got, frame_count>>
    /\ DriverFrame

\* the capture loop calls get_video_frame: `with self.video_lock`
LoopAcquire ==
    /\ loop_pc = "get"
    /\ video_lock = None
    /\ video_lock' = "loop"
    /\ loop_pc' = "copy"
    /\ UNCHANGED <<delivered, dropped, video_data, loop_got, cycle_mark, reader_pc,
                   reader_got, frame_count>>
    /\ DriverFrame

\* get_video_frame returns a copy of the slot, or None; the loop counts the
\* frame when it got one, and the cycle ends
LoopReturn ==
    /\ loop_pc = "copy"
    /\ video_lock' = None
    /\ loop_got' = video_data
    /\ frame_count' = IF video_data # NoFrame THEN frame_count + 1 ELSE frame_count
    /\ cycle_mark' = delivered
    /\ loop_pc' = "events"
    /\ UNCHANGED <<delivered, dropped, video_data, reader_pc, reader_got>>
    /\ DriverFrame

\* another thread calls get_video_frame
ReaderAcquire ==
    /\ reader_pc = "idle"
    /\ video_lock = None
    /\ video_lock' = "reader"
    /\ reader_pc' = "copy"
    /\ UNCHANGED <<delivered, dropped, video_data, loop_pc, loop_got, cycle_mark,
                   reader_got, frame_count>>
    /\ DriverFrame

ReaderReturn ==
    /\ reader_pc = "copy"
    /\ video_lock' = None
    /\ reader_got' = video_data
    /\ reader_pc' = "idle"
    /\ UNCHANGED <<delivered, dropped, video_data, loop_pc, loop_got, cycle_mark,
                   frame_count>>
    /\ DriverFrame

\* a started RobustKinectStreamer or SimpleKinectStreamer before its first cycle
InitDriver ==
    /\ \E v \in DriverVariants : IsProbeState(FramesProbe(v))
    /\ launch = "direct"
    /\ running = TRUE
    /\ frame_count = 0
    /\ current_frame = NoFrame
    /\ current_depth = NoFrame
    /\ frame_queue = <<>>
    /\ depth_queue = <<>>
    /\ cap_pc = "loop"
    /\ in_use = None
    /\ last_cycle = "none"
    /\ main_pc = "serving"
    /\ server = "set"
    /\ is_shut_down = FALSE
    /\ stop_pc = "idle"
    /\ stops = 0
    /\ status_line = FALSE
    /\ FrameDefaults
    /\ ToneDefaults
    /\ CfgDefaults
    /\ ScanDefaults
    /\ DrvDefaults

NextDriver ==
    \/ CallbackEnter
    \/ CallbackStore
    \/ NoEvent
    \/ LoopAcquire
    \/ LoopReturn
    \/ ReaderAcquire
    \/ ReaderReturn

SpecDriver == InitDriver /\ [][NextDriver]_vars

(***************************************************************************)
(* Claims about device probing                                             *)
(***************************************************************************)

\* the guard the source puts in front of each backend, written out per class
C3_Guarded(m) ==
    \/ /\ variant = "pi_kinect"
       /\ \/ m = "freenect" /\ FREENECT_AVAILABLE /\ config.enabled
          \/ m = "freenect_system" /\ config.enabled
          \/ m = "opencv" /\ config.fallback_to_opencv
    \/ /\ variant = "unified"
       /\ \/ m = "freenect" /\ FREENECT_AVAILABLE
          \/ m = "freenect_system"
          \/ m = "opencv"

C3_Order == <<"freenect", "freenect_system", "opencv">>

C3_GuardedOrder == SelectSeq(C3_Order, C3_Guarded)

\* C3 as stated: the i-th attempt is always the i-th backend of the fixed order
\* (so a backend is attempted only after every earlier one was attempted and
\* failed), no attempt follows a success, and 'opencv' is selected only after
\* both earlier backends were attempted
C3_AsStated ==
    /\ \A i \in 1..Len(attempted) :
          /\ attempted[i].method = C3_Order[i]
          /\ i < Len(attempted) => ~attempted[i].ok
    /\ kinect_method = "opencv" => Len(attempted) = 3

\* C3 (amended): the attempts are, in the fixed order freenect, freenect_system,
\* opencv, exactly the backends whose guard holds; a backend is attempted only
\* after every earlier guarded backend was attempted and failed; the probe stops
\* at the first success and selects it; it gives up only when every guarded
\* backend was attempted and failed
C3_FallbackOrder ==
    /\ Len(attempted) <= Len(C3_GuardedOrder)
    /\ \A i \in 1..Len(attempted) :
          /\ attempted[i].method = C3_GuardedOrder[i]
          /\ i < Len(attempted) => ~attempted[i].ok
    /\ probe_pc = "done" =>
          IF kinect_method # None
          THEN /\ attempted # <<>>
               /\ attempted[Len(attempted)] = [method |-> kinect_method, ok |-> TRUE]
          ELSE /\ Len(attempted) = Len(C3_GuardedOrder)
               /\ \A i \in 1..Len(attempted) : ~attempted[i].ok
    /\ (probe_pc = "done" /\ kinect_method = "opencv" /\ Len(C3_GuardedOrder) = 3) =>
          attempted = <<[method |-> "freenect", ok |-> FALSE],
                        [method |-> "freenect_system", ok |-> FALSE],
                        [method |-> "opencv", ok |-> TRUE]>>

\* only the generic camera succeeded, after the two earlier backends were tried
C3_Witness ==
    /\ probe_pc = "done"
    /\ kinect_method = "opencv"
    /\ Len(attempted) = 3
    /\ ~attempted[1].ok /\ ~attempted[2].ok /\ attempted[3].ok

\* C4: the probe never ends by raising, and when no attempt succeeded it ends
\* with kinect_available false, kinect_method None and a non-empty error_message
C4_DegradedNotRaised ==
    /\ probe_pc # "raised"
    /\ (probe_pc = "done" /\ \A i \in 1..Len(attempted) : ~attempted[i].ok) =>
          /\ kinect_available = FALSE
          /\ kinect_method = None
          /\ error_message \notin {None, ""}

\* all three backends were tried and failed, the first one by raising in a
\* mode-set call after the device was opened
C4_Witness ==
    /\ probe_pc = "done"
    /\ Len(attempted) = 3
    /\ \A i \in 1..3 : ~attempted[i].ok
    /\ "dev_py" \in opened
    /\ kinect_method = None

(***************************************************************************)
(* Claims about the capture loop and shutdown                              *)
(***************************************************************************)

\* C5: with no backend selected, every capture cycle publishes a newly
\* synthesized status frame as the current color frame and frame_count
\* grows by one, also once the 10-slot frame queue is full.
C5_StatusEveryCycle ==
    [][StatusCycle => /\ frame_count' = frame_count + 1
                      /\ current_frame' = frame_count'
                      /\ current_frame' # current_frame]_vars

\* a degraded KinectStreamer whose queue is full and which has published since
C5_Witness ==
    /\ variant = "pi_kinect"
    /\ kinect_method = None
    /\ Len(frame_queue) = QueueMaxSize
    /\ frame_count > QueueMaxSize
    /\ current_frame = frame_count
    /\ last_cycle = "published"

\* the next step of a stop() that has been called and has not returned
StopStep == StopShutdownServer \/ StopJoin \/ StopCleanup

\* C6: a stop() that has been invoked never waits without bound: at every
\* point inside stop() either stop() itself can take its next step or the
\* capture thread it joins can end.
C6_StopNeverBlocked ==
    stop_pc \in {"shutdown", "join", "cleanup"} =>
        \/ ENABLED StopStep
        \/ stop_pc = "join" /\ ENABLED CaptureExit

\* C7: when stop() has returned, every resource the probe opened has been
\* released exactly once, however many stop() calls were made.
C7_ReleasedExactlyOnce ==
    stop_pc = "returned" => \A r \in opened : releases[r] = 1

\* C8: while a capture cycle is inside a backend call, the handle it reads
\* from has not been released by another thread.
C8_HandleOwnedByCapture ==
    (cap_pc = "backend" /\ in_use # None) => releases[in_use] = 0


(***************************************************************************)
(* Claims about frames and readers                                         *)
(***************************************************************************)

\* C1: in KinectStreamer and UnifiedKinectStreamer every non-None value that
\* get_frame / get_depth_frame returns equals the frame of one publication,
\* whatever the interleaving with the capture thread.
C1_NoTornRead ==
    variant \in ProbeVariants =>
        \A r \in Readers :
            result[r].state = "frame" =>
                \E p \in 1..pubs : result[r].pix = FreshArray(p)

\* a read returned a whole frame while a newer frame had already been published
C1_Witness ==
    /\ variant \in ProbeVariants
    /\ result["api"].state = "frame"
    /\ result["api"].req = "get_frame"
    /\ current_frame # NoFrame
    /\ heap[current_frame] # result["api"].pix
    /\ result["api"].pix = FreshArray(1)

\* some pixels of an image come from one captured frame, others from another
Mixed(pix) ==
    \E i, j \in 1..Len(pix) : pix[i] # pix[j] /\ pix[i] >= 1 /\ pix[j] >= 1

\* C2: RobustKinectStreamer.get_frame never returns an image whose pixels
\* come from two different captured frames.
C2_RobustNoMixedPixels ==
    variant = "robust" =>
        \A r \in Readers :
            (result[r].state = "frame" /\ KindOf(result[r].req) = "rgb") =>
                ~Mixed(result[r].pix)

\* C9: an exception raised inside a capture cycle never ends the capture
\* thread: while running is true the loop is still alive.
C9_CaptureSurvives ==
    running => cap_pc # "dead"

\* C10: a /stream or /depth request for a kind that was never published is
\* answered 200 with a synthesized placeholder image.
C10_PlaceholderWhenUnpublished ==
    \A r \in Readers :
        (response[r].req \in HTTPPaths /\ result[r].state = "none") =>
            (response[r].status = 200 /\ response[r].body = "placeholder")


\* C11: /frame always answers 200 with a JSON body; a kind that was never
\* published is reported as not available, and the data of a kind is in
\* the body exactly when its availability flag is true.
C11_FrameJsonAbsence ==
    \A r \in Readers :
        response[r].req = "/frame" =>
            /\ response[r].status = 200
            /\ response[r].body = "json"
            /\ current_frame = NoFrame => ~json[r].rgb_available
            /\ current_depth = NoFrame => ~json[r].depth_available
            /\ json[r].rgb_available <=> json[r].has_rgb_data
            /\ json[r].depth_available <=> json[r].has_depth_data
            /\ json[r].has_rgb_data <=> Len(json[r].rgb_data) = FrameLen
            /\ json[r].has_depth_data <=> Len(json[r].depth_data) = FrameLen

\* a /frame response with color present and depth, never published, absent
C11_Witness ==
    /\ response["http"].req = "/frame"
    /\ json["http"].rgb_available
    /\ ~json["http"].depth_available
    /\ current_depth = NoFrame

\* the pixels of the frame reader r holds
View(r) == IF rd_alias[r] # NoFrame THEN heap[rd_alias[r]] ELSE result[r].pix

\* C13: a frame returned by get_frame / get_depth_frame is a private copy:
\* it is not the published array, and while the reader holds it no step of
\* the capture thread or of another reader changes its pixels.
C13_PrivateCopy ==
    [][\A r \in Readers :
          /\ result'[r].state = "frame" => rd_alias'[r] = NoFrame
          /\ (result[r].state = "frame" /\ result'[r] = result[r]
                 /\ rd_alias'[r] = rd_alias[r]) => View(r)' = View(r)]_vars

\* a reader still holds frame 1 after the buffer it was copied from was
\* overwritten in place with frame 2
C13_Witness ==
    /\ variant = "robust"
    /\ result["api"].state = "frame"
    /\ result["api"].pix = FreshArray(1)
    /\ heap[current_frame] = FreshArray(2)

\* C14: before the first publication of a kind a reader gets None; a
\* returned frame always consists of pixels some publication stored.
C14_NoneBeforeFirstPublish ==
    \A r \in Readers :
        result[r].state = "frame" =>
            \A i \in 1..Len(result[r].pix) : result[r].pix[i] \in 1..pubs

\* C15: the frames one consumer gets from successive calls for one kind
\* never go backwards in publication order.
C15_MonotoneReads ==
    [][\A r \in Readers : \A k \in Kinds : seen'[r][k] >= seen[r][k]]_vars

\* a consumer that was handed frame 1 earlier is about to be handed frame 2
C15_Witness ==
    /\ variant = "pi_kinect"
    /\ seen["api"]["rgb"] = 1
    /\ rd_req["api"] = "get_frame"
    /\ rd_pc["api"] = "copy"
    /\ rd_buf["api"] = FreshArray(2)

\* the number of get_* calls for kind k in the request reader r finished
CallCount(r, k) == Cardinality({i \in 1..Len(rd_snaps[r]) : rd_snaps[r][i].kind = k})

\* the snapshot of kind k taken by the request reader r finished
SnapshotOf(r, k) == rd_snaps[r][CHOOSE i \in 1..Len(rd_snaps[r]) : rd_snaps[r][i].kind = k]

\* C18: a handler reads each kind it serves exactly once per request and
\* builds the whole response (flag, data) from that one snapshot.
C18_SingleSnapshot ==
    \A r \in Readers :
        (rd_pc[r] = "idle" /\ response[r].req # None) =>
            /\ \A k \in Kinds :
                  CallCount(r, k) =
                     IF response[r].req = "/frame" \/ KindOf(response[r].req) = k
                     THEN 1 ELSE 0
            /\ response[r].req \in HTTPPaths =>
                  (response[r].body = "frame" <=>
                      SnapshotOf(r, KindOf(response[r].req)).state = "frame")
            /\ response[r].req = "/frame" =>
                  /\ json[r].rgb_available = (SnapshotOf(r, "rgb").state = "frame")
                  /\ json[r].rgb_data = SnapshotOf(r, "rgb").pix
                  /\ json[r].depth_available = (SnapshotOf(r, "depth").state = "frame")
                  /\ json[r].depth_data = SnapshotOf(r, "depth").pix

\* a /frame response carrying both kinds, sent after a newer color frame
\* than the one in it was published
C18_Witness ==
    /\ response["http"].req = "/frame"
    /\ json["http"].has_rgb_data
    /\ json["http"].has_depth_data
    /\ current_frame # NoFrame
    /\ heap[current_frame] # json["http"].rgb_data


(***************************************************************************)
(* Claims about /status, failed reads and the fixed backend                *)
(***************************************************************************)

\* C12: in degraded mode every /status response reports running true,
\* kinect_available false and a non-null error_message, and frame_count > 0
\* once a capture cycle has run.
C12_DegradedStatus ==
    [][(ServeStatus /\ kinect_method = None) =>
          /\ response'["http"].status = 200
          /\ json'["http"].running
          /\ ~json'["http"].kinect_available
          /\ json'["http"].error_message # None
          /\ last_cycle # "none" => json'["http"].frame_count > 0]_vars

\* a degraded /status response sent after capture cycles have run
C12_Witness ==
    /\ kinect_method = None
    /\ response["http"].req = "/status"
    /\ json["http"].frame_count > 1
    /\ json["http"].error_message # None
    /\ main_pc = "serving"

\* C16 as stated: a capture cycle in which a backend read fails or yields
\* no frame leaves the current color frame, the current depth frame and
\* frame_count as they were.
C16_AsStated ==
    [][\A rgb \in RgbOutcomes, d \in DepthOutcomes :
          (BackendEndWith(rgb, d) /\ (rgb # "frame" \/ d = "raises")) =>
              UNCHANGED <<current_frame, current_depth, frame_count>>]_vars

\* C16 amended: each read stands for its own kind. A color read that fails
\* or yields nothing leaves current_frame and frame_count unchanged, a depth
\* read that fails or yields nothing leaves current_depth unchanged, and
\* the loop goes on against the same backend.
C16_FailedReadKeepsItsKind ==
    [][\A rgb \in RgbOutcomes, d \in DepthOutcomes :
          BackendEndWith(rgb, d) =>
              /\ rgb # "frame" => UNCHANGED <<current_frame, frame_count, frame_queue>>
              /\ d # "depth" => UNCHANGED <<current_depth, depth_queue>>
              /\ cap_pc' = "loop"
              /\ UNCHANGED <<kinect_method, cap, device_handle, freenect_ctx>>]_vars

\* after earlier publications of both kinds a cycle ended without a frame
C16_Witness ==
    /\ last_cycle = "skipped"
    /\ cap_pc = "loop"
    /\ kinect_method = "freenect"
    /\ current_frame # NoFrame
    /\ current_depth # NoFrame

\* C17: kinect_method and kinect_available never change after construction.
C17_MethodFixed ==
    [][kinect_method' = kinect_method /\ kinect_available' = kinect_available]_vars

\* a selected backend is still selected after a cycle without a frame, a
\* /status request and a complete stop()
C17_Witness ==
    /\ kinect_method = "opencv"
    /\ kinect_available
    /\ last_cycle = "skipped"
    /\ response["http"].req = "/status"
    /\ stop_pc = "returned"

(***************************************************************************)
(* Claims about the depth preview                                          *)
(***************************************************************************)
\* the valid samples of the frame and their two percentiles, times PercentScale
ValidSamples == SelectSeq(depth_frame, LAMBDA x : x > 0 /\ x < ValidLimit)
P1 == percentile(ValidSamples, LowPercent)
P99 == percentile(ValidSamples, HighPercent)
ValidAt == {i \in 1..Len(depth_frame) : depth_frame[i] > 0 /\ depth_frame[i] < ValidLimit}

\* C19: when the frame has no valid sample (every sample is 0 or >= 2048), or
\* all its valid samples are equal, _tone_map_depth returns an all-zero 8-bit
\* image with the dimensions of the frame, and in neither case divides by zero.
C19_FlatFrameIsBlack ==
    (/\ tone_pc = "done"
     /\ \/ ValidAt = {}
        \/ \A i, j \in ValidAt : depth_frame[i] = depth_frame[j])
    => /\ Len(tone_out.image) = Len(depth_frame)
       /\ \A i \in 1..Len(depth_frame) : tone_out.image[i] = 0
       /\ ~tone_out.divided_by_zero

\* a frame whose valid samples are all equal, next to invalid ones, was mapped
C19_Witness ==
    /\ tone_pc = "done"
    /\ Cardinality(ValidAt) >= 2
    /\ \A i, j \in ValidAt : depth_frame[i] = depth_frame[j]
    /\ \E i \in 1..Len(depth_frame) : depth_frame[i] >= ValidLimit
    /\ \E i \in 1..Len(depth_frame) : depth_frame[i] = 0

\* C20: when the 1st percentile of the valid samples is below their 99th,
\* a sample equal to the 1st percentile maps to 0, a sample equal to the 99th
\* maps to 255, every output is in 0..255, and the mapping is monotone
\* non-decreasing over the valid samples.
C20_PercentileStretch ==
    (/\ tone_pc = "done"
     /\ ValidAt # {}
     /\ P1 < P99)
    => /\ Len(tone_out.image) = Len(depth_frame)
       /\ \A i \in 1..Len(depth_frame) :
            /\ tone_out.image[i] \in 0..PreviewMax
            /\ PercentScale * depth_frame[i] = P1 => tone_out.image[i] = 0
            /\ PercentScale * depth_frame[i] = P99 => tone_out.image[i] = PreviewMax
       /\ \A i, j \in ValidAt :
            depth_frame[i] <= depth_frame[j] => tone_out.image[i] <= tone_out.image[j]

\* a mapped frame whose percentiles differ, with a valid sample on each of
\* them and one mapped to the brightest value
C20_Witness ==
    /\ tone_pc = "done"
    /\ ValidAt # {}
    /\ P1 < P99
    /\ \E i \in ValidAt : PercentScale * depth_frame[i] = P1
    /\ \E i \in ValidAt : PercentScale * depth_frame[i] = P99
    /\ \E i \in ValidAt : tone_out.image[i] = PreviewMax

\* C21 as stated: whenever valid samples exist, every invalid sample (0, or
\* at or above the 2048 ceiling) is mapped to 0.
C21_AsStated ==
    (tone_pc = "done" /\ ValidAt # {})
    => \A i \in (1..Len(depth_frame)) \ ValidAt : tone_out.image[i] = 0

\* C21: whenever valid samples exist, every invalid sample is mapped to what
\* the clamped formula yields: a sample equal to 0 maps to 0, and a sample at
\* or above the ceiling maps to 255 when the two percentiles differ and to 0
\* when they are equal.
C21_InvalidClamped ==
    (tone_pc = "done" /\ ValidAt # {})
    => \A i \in (1..Len(depth_frame)) \ ValidAt :
          tone_out.image[i] = IF P1 < P99 /\ depth_frame[i] >= ValidLimit
                              THEN PreviewMax ELSE 0

\* a mapped frame whose percentiles differ and that holds both kinds of
\* invalid sample
C21_Witness ==
    /\ tone_pc = "done"
    /\ ValidAt # {}
    /\ P1 < P99
    /\ \E i \in 1..Len(depth_frame) : depth_frame[i] = 0 /\ tone_out.image[i] = 0
    /\ \E i \in 1..Len(depth_frame) :
          depth_frame[i] >= ValidLimit /\ tone_out.image[i] = PreviewMax

\* C22: for a /depth request made after a depth frame has been published, the
\* image served is the percentile tone-mapping (1st to 99th percentile of the
\* valid samples) of the depth snapshot read for that request.
C22_DepthIsToneMapped ==
    (depth_body.served /\ Len(depth_frame) > 0)
    => /\ depth_body.snapshot = depth_frame
       /\ depth_body.gray = tone_map_depth(depth_body.snapshot).image

(***************************************************************************)
(* Claims about the configuration file                                     *)
(***************************************************************************)
\* C23: Config.save(path) followed by Config.load(path), with no PI_KINECT_*
\* environment variable set, yields a configuration equal to the saved one in
\* every field that to_dict() writes.
C23_SaveLoadRoundTrip ==
    (cfg_pc = "loaded" /\ cfg_env = "unset")
    => \A f \in DOMAIN to_dict(cfg_made) : cfg_loaded[f] = cfg_made[f]

(***************************************************************************)
(* Claims about the frame queue, the diagnostic line and the camera scan   *)
(***************************************************************************)
\* C24: _add_frame_to_queue keeps the frame queue bounded without holding the
\* capture thread back: after any number of publications the queue holds at
\* most 10 frames, they are the most recently published frames in publication
\* order (every publication entered the queue, the oldest frame left when it
\* was full), and current_frame is the newest frame in the queue.
C24_QueueKeepsNewest ==
    variant = "pi_kinect" =>
        LET n == Len(frame_queue) IN
        /\ n <= QueueMaxSize
        /\ n = IF frame_count < QueueMaxSize THEN frame_count ELSE QueueMaxSize
        /\ \A i \in 1..n : frame_queue[i] = frame_count - n + i
        /\ n > 0 => current_frame = frame_queue[n]
        /\ Len(depth_queue) <= QueueMaxSize

\* a KinectStreamer that has published two frames more than its queue holds
C24_Witness ==
    /\ variant = "pi_kinect"
    /\ frame_count = QueueMaxSize + 2
    /\ Len(frame_queue) = QueueMaxSize
    /\ Head(frame_queue) = 3
    /\ current_frame = frame_count

\* the capture loop finishes a cycle
CycleEnd == StatusCycle \/ BackendSkip \/ BackendEnd

\* C25: the capture loop emits the FPS line once per 100 published frames: a
\* line is emitted in a cycle exactly when that cycle's publication brought
\* frame_count to a positive multiple of 100.
C25_LinePerHundredFrames ==
    [][CycleEnd => (status_line' <=> /\ frame_count' > frame_count
                                     /\ frame_count' > 0
                                     /\ frame_count' % StatusEvery = 0)]_vars

\* first list position whose camera opens and returns a frame, 0 if none does
FirstWorking == IF \E i \in 1..Len(CapNames) : cam_outs[i] = "ok"
                THEN CHOOSE i \in 1..Len(CapNames) :
                        /\ cam_outs[i] = "ok"
                        /\ \A j \in 1..(i - 1) : cam_outs[j] # "ok"
                ELSE 0

\* C26: _try_opencv walks its list of camera indices in order and selects the
\* first index whose capture both opens and returns a frame; an index that
\* opens but yields no frame is released and skipped; on success the selected
\* index is recorded as the camera index, and if no index qualifies the
\* function fails with no capture retained.
C26_FirstWorkingIndex ==
    [][ScanOpencv =>
         IF FirstWorking # 0
         THEN /\ kinect_method' = "opencv"
              /\ cap' = CapNames[FirstWorking]
              /\ config'.index = CameraIndexList(config.index)[FirstWorking]
              /\ \A i \in 1..(FirstWorking - 1) :
                    cam_outs[i] = "noframe" => releases'[CapNames[i]] = 1
         ELSE /\ kinect_method' = None
              /\ cap' = None
              /\ \A i \in 1..Len(CapNames) :
                    cam_outs[i] = "noframe" => releases'[CapNames[i]] = 1]_vars

(***************************************************************************)
(* Claims about what the probe leaves behind and what the loop does with it *)
(***************************************************************************)
\* C27: whenever the probe selected a backend and the device keeps delivering
\* frames, the capture loop eventually publishes a color frame.  Finite form:
\* a running capture loop with a selected backend that has not published yet
\* can enter the backend read that would publish.
C27_SelectedBackendPublishes ==
    (/\ kinect_method # None
     /\ cap_pc = "loop" /\ running /\ ProcessAlive
     /\ stop_pc = "idle" /\ stops = 0
     /\ frame_count = 0)
    => ENABLED BackendBegin

\* C28: a backend attempt that fails during probing leaves no device state
\* behind: after the probe a freenect handle (device_handle, or freenect_ctx /
\* freenect_device) is set only if the selected method is 'freenect' or
\* 'freenect_system', and cap is set only if the selected method is 'opencv'.
C28_NoResidualHandle ==
    probe_pc = "done" =>
        /\ (device_handle # None \/ freenect_ctx # None \/ freenect_device # None)
              => kinect_method \in {"freenect", "freenect_system"}
        /\ cap # None => kinect_method = "opencv"

(***************************************************************************)
(* Claims about the driver callbacks                                       *)
(***************************************************************************)
\* C29: RobustFreenect's callback never blocks: when the lock is held as the
\* driver delivers a frame the callback returns at once, the frame is dropped
\* and video_data keeps its value; otherwise the slot is replaced by a copy of
\* the delivered frame; get_video_frame returns a delivered frame or None.
C29_CallbackNeverBlocks ==
    [][variant = "robust" =>
         /\ (loop_pc = "events" /\ running /\ delivered < MaxDelivered)
               => ENABLED CallbackEnter
         /\ (CallbackEnter /\ video_lock # None)
               => /\ loop_pc' = "get"
                  /\ video_data' = video_data
                  /\ dropped' = dropped + 1
         /\ (CallbackEnter /\ video_lock = None) => video_lock' = "callback"
         /\ CallbackStore => video_data' \in {video_data, delivered}
         /\ loop_got' \in {NoFrame} \cup 1..delivered'
         /\ reader_got' \in {NoFrame} \cup 1..delivered']_vars

\* RobustFreenect dropped a frame while a reader held the lock and a frame
\* delivered earlier is still in the slot
C29_Witness ==
    /\ variant = "robust"
    /\ dropped > 0
    /\ video_data # NoFrame
    /\ video_data < delivered
    /\ reader_got # NoFrame

\* C30: frame_count counts delivered frames: it increases by one only in a
\* capture cycle that consumed a frame newly delivered since the previous
\* cycle; a cycle in which no new frame arrived leaves it unchanged.
C30_CountsDeliveredFrames ==
    [][LoopReturn =>
         /\ frame_count' \in {frame_count, frame_count + 1}
         /\ frame_count' = frame_count + 1
               => (loop_got' # NoFrame /\ loop_got' > cycle_mark)
         /\ delivered = cycle_mark => frame_count' = frame_count]_vars

====
